---- MODULE Spec2Model ----
(***************************************************************************)
(* leechbar: the redraw cycle of a bar component (src/src/render.rs), the  *)
(* component registry and the exposure handler (src/src/bar.rs), and the   *)
(* per-component control loop.                                             *)
(*                                                                         *)
(* The X server is part of the model as far as the code observes it: a     *)
(* picture id names a created and not yet freed picture or it does not,    *)
(* and a checked request can come back with an error.                      *)
(*                                                                         *)
(* Spec        the bar with a server that fails requests and timers that   *)
(*             fire                                                        *)
(* SpecEvents  the bar with the interaction events of its user             *)
(* SpecLayout  more components, with a quiet server and a quiet user       *)
(* SpecWidth   calculate_width as a function of its inputs                 *)
(* SpecDraw    registrations alone, with the ids the components declare    *)
(* SpecUpdate  components with an update hook                              *)
(* SpecTimers  components without a redraw timer, or whose timer goes away *)
(* SpecGone    timers that go away, with a server that fails requests      *)
(* SpecCache   the cached pictures of Text and Image and their owners      *)
(* SpecLoop    the component threads of Bar::draw with the exposure handler*)
(* SpecOverlap first cycles that all begin before the first takes the lock *)
(* SpecTwins   the component threads, with the ids the components declare  *)
(* SpecMeasure calculate_width with the sizes of its image and its text    *)
(* SpecOffset  Alignment::x_offset as a function of its inputs             *)
(* SpecFingerprint  the comparison of two BarComponentCache                *)
(* SpecXOffset xoffset_by_id as a function of the registry                 *)
(***************************************************************************)
EXTENDS Integers, Sequences, FiniteSets, TLC

VARIABLES
    components,     \* bar.components: the registry, a Vec<BarComponent> behind the mutex
    component_ids,  \* the next id of each alignment bucket
    lock,           \* state of the registry mutex
    pc,             \* position of each component's control-loop thread
    local,          \* locals of a running redraw cycle: the measured declaration and width
    pictures,       \* X server: state of every picture id the bar generated
    background,     \* bar.background: picture id of the bar background, 0 without image
    xpc,            \* position of the X event loop thread
    queue,          \* events in the interrupt channel whose sender the registry holds
    stale,          \* events left in an interrupt channel that is not read anymore
    events,         \* number of interaction events dispatched so far
    ticks,          \* number of times a redraw timer has fired so far
    limit,          \* what the environment of the bar does at most in this run
    faults,         \* number of X requests that failed for a reason of the server's
    ops,            \* the X requests and the outcome of the most recent step
    call,           \* the most recent call of a pure function, with its result
    arcs            \* Arc<Picture>: the owners each cached Image or Text picture has

vars == <<components, component_ids, lock, pc, local, pictures, background, xpc,
          queue, stale, events, ticks, limit, faults, ops, call, arcs>>

----------------------------------------------------------------------------
(* Bounds of the model *)

\* number of components that get registered
MaxComponents == 2
\* number of X requests the server fails for reasons of its own
MaxFaults == 1
\* number of interaction events the dispatcher delivers
MaxEvents == 1
\* number of times the redraw timers fire
MaxTicks == 1
\* number of components that get registered where the server and the user are quiet
MaxLayoutComponents == 3

(* Program constants *)

\* bar.geometry.width: the width of the output, as Bar::new reads it
BarWidth == 200
\* bar.geometry.height: BarBuilder's default height
BarHeight == 30
\* ::std::u16::MAX, the default of Width.max
U16Max == 65535

----------------------------------------------------------------------------
(* Machine integers *)

Max(a, b) == IF a >= b THEN a ELSE b
Min(a, b) == IF a <= b THEN a ELSE b

\* a value reduced to u16, as the wrapping sum of u16 values
U16(n) == n % 65536

\* `as i16` of an integer: the low 16 bits, read as two's complement
I16(n) == LET m == n % 65536 IN IF m >= 32768 THEN m - 65536 ELSE m

\* `as i16` of a float that holds the integer n: the value, kept in the range of i16
F64AsI16(n) == IF n > 32767 THEN 32767 ELSE IF n < -32768 THEN -32768 ELSE n

\* `as i16` of the float n / 2: truncation towards zero
HalfAsI16(n) == F64AsI16(IF n >= 0 THEN n \div 2 ELSE -((-n) \div 2))

\* Option<T>
None == <<>>
Some(v) == <<v>>
IsSome(o) == o # None
Unwrap(o) == o[1]

----------------------------------------------------------------------------
(* Width of a component: src/src/width.rs, src/src/render.rs *)

\* Width::new()
WidthNew == [fixed |-> None, min |-> 0, max |-> U16Max,
             ignore_background |-> FALSE, ignore_text |-> FALSE]

\* calculate_width without the clamp to the bar's width
calculate_width_noclamp(bar_width, width, image, text) ==
    IF IsSome(width.fixed) THEN Unwrap(width.fixed)
    ELSE LET w0 == width.min
             w1 == IF IsSome(image) /\ ~width.ignore_background
                   THEN Max(w0, Unwrap(image)) ELSE w0
             w2 == IF IsSome(text) /\ ~width.ignore_text
                   THEN Max(w1, Unwrap(text)) ELSE w1
         IN  Min(w2, width.max)

\* calculate_width: image is the width of the background image, text the width
\* text_width measures for the text; None where the component declares none
calculate_width(bar_width, width, image, text) ==
    IF IsSome(width.fixed) THEN Unwrap(width.fixed)
    ELSE LET w0 == width.min
             w1 == IF IsSome(image) /\ ~width.ignore_background
                   THEN Max(w0, Unwrap(image)) ELSE w0
             w2 == IF IsSome(text) /\ ~width.ignore_text
                   THEN Max(w1, Unwrap(text)) ELSE w1
             w3 == Min(w2, bar_width)
         IN  Min(w3, width.max)

----------------------------------------------------------------------------
(* The registry: src/src/component/bar_component.rs, src/src/util/geometry.rs *)

\* Geometry::new
Geometry(x, y, width, height) == [x |-> x, y |-> y, width |-> width, height |-> height]

\* BarComponent::new: the picture id is generated, the picture is not created yet
BarComponent(id, picture) ==
    [id |-> id, picture |-> picture, geometry |-> Geometry(0, 0, 0, 0), interrupt |-> None]

\* Alignment::id: the bucket index of an alignment
AlignmentIndex(alignment) ==
    CASE alignment = "LEFT" -> 0 [] alignment = "CENTER" -> 1 [] alignment = "RIGHT" -> 2

Alignments == {"LEFT", "CENTER", "RIGHT"}

\* Iterator::filter: the indices at which keep holds, in order
FilterIdx(keep) ==
    LET F[i \in 0..Len(keep)] ==
            IF i = 0 THEN <<>>
            ELSE IF keep[i] THEN Append(F[i - 1], i) ELSE F[i - 1]
    IN  F[Len(keep)]

\* the elements of s at the indices idxs
Pick(s, idxs) == [k \in 1..Len(idxs) |-> s[idxs[k]]]

\* the widths of a sequence of components
Widths(s) == [k \in 1..Len(s) |-> s[k].geometry.width]

\* Iterator::sum::<u16>(): the sum of u16 values, wrapping at 2^16
RECURSIVE sum_u16(_)
sum_u16(s) == IF s = <<>> THEN 0 ELSE U16(sum_u16(Tail(s)) + Head(s))

\* one step of the stable sort: c goes behind every element whose id is not larger
InsertById(s, c) ==
    LET k == Cardinality({i \in DOMAIN s : s[i].id <= c.id})
    IN  SubSeq(s, 1, k) \o <<c>> \o SubSeq(s, k + 1, Len(s))

\* components.sort_by(|a, b| a.id.cmp(&b.id))
RECURSIVE sort_by_id(_)
sort_by_id(s) ==
    IF s = <<>> THEN <<>>
    ELSE InsertById(sort_by_id(SubSeq(s, 1, Len(s) - 1)), s[Len(s)])

\* the filter of render where every bucket is taken from the component of the cycle on
SelectedFromOwn(c, id) == c.id >= id /\ c.id % 3 = id % 3

\* the filter of render without the test for the bucket
Selected_anybucket(c, id) == c.id % 3 # 0 \/ c.id >= id

\* the filter of render where the left bucket is taken whole, like the others
Selected_wholebucket(c, id) == c.id % 3 = id % 3

\* the filter of render: the components a cycle of id lays out again
Selected(c, id) == (c.id % 3 # 0 \/ c.id >= id) /\ c.id % 3 = id % 3


\* xoffset_by_id where the left bucket starts behind all its components
xoffset_by_id_all(comps, id, new_width, bar_width) ==
    IF id % 3 # 0
    THEN LET others == Pick(comps, FilterIdx([i \in DOMAIN comps |->
                                 comps[i].id # id /\ comps[i].id % 3 = id % 3]))
             width  == sum_u16(Widths(others)) + new_width
         IN  IF id % 3 = 1
             THEN HalfAsI16(bar_width - width)
             ELSE I16(I16(bar_width) - F64AsI16(width))
    ELSE I16(sum_u16(Widths(Pick(comps,
                 FilterIdx([i \in DOMAIN comps |-> comps[i].id % 3 = id % 3])))))

\* xoffset_by_id where the center bucket is anchored like the right one
xoffset_by_id_flush(comps, id, new_width, bar_width) ==
    IF id % 3 # 0
    THEN LET others == Pick(comps, FilterIdx([i \in DOMAIN comps |->
                                 comps[i].id # id /\ comps[i].id % 3 = id % 3]))
             width  == sum_u16(Widths(others)) + new_width
         IN  I16(I16(bar_width) - F64AsI16(width))
    ELSE I16(sum_u16(Widths(Pick(comps,
                 FilterIdx([i \in DOMAIN comps |->
                     id > comps[i].id /\ comps[i].id % 3 = id % 3])))))

\* xoffset_by_id where the right bucket leaves out the new width
xoffset_by_id_old(comps, id, new_width, bar_width) ==
    IF id % 3 # 0
    THEN LET others == Pick(comps, FilterIdx([i \in DOMAIN comps |->
                                 comps[i].id # id /\ comps[i].id % 3 = id % 3]))
             width  == sum_u16(Widths(others)) + new_width
         IN  IF id % 3 = 1
             THEN HalfAsI16(bar_width - width)
             ELSE I16(I16(bar_width) - F64AsI16(sum_u16(Widths(others))))
    ELSE I16(sum_u16(Widths(Pick(comps,
                 FilterIdx([i \in DOMAIN comps |->
                     id > comps[i].id /\ comps[i].id % 3 = id % 3])))))

\* xoffset_by_id: the x of the first component a cycle of id lays out.
\* The sum of the bucket's widths is a u16 that becomes an f64; bar_width / 2 - width / 2
\* is exact in f64 and `as i16` truncates it.
xoffset_by_id(comps, id, new_width, bar_width) ==
    IF id % 3 # 0
    THEN LET others == Pick(comps, FilterIdx([i \in DOMAIN comps |->
                                 comps[i].id # id /\ comps[i].id % 3 = id % 3]))
             width  == sum_u16(Widths(others)) + new_width
         IN  IF id % 3 = 1
             THEN HalfAsI16(bar_width - width)
             ELSE I16(I16(bar_width) - F64AsI16(width))
    ELSE I16(sum_u16(Widths(Pick(comps,
                 FilterIdx([i \in DOMAIN comps |->
                     id > comps[i].id /\ comps[i].id % 3 = id % 3])))))

----------------------------------------------------------------------------
(* The X connection, as a redraw cycle or the exposure handler drives it.        *)
(* st.comps: the registry, st.pics: the server's pictures, st.reqs: the requests  *)
(* sent so far, st.checked: how many of them were checked, st.fail: the index of  *)
(* the checked request that the server fails for a reason of its own (0: none),  *)
(* st.err: a checked request has failed, and nothing is sent after it.            *)

Conn(comps, pics, reqs, fail) ==
    [comps |-> comps, pics |-> pics, reqs |-> reqs, checked |-> 0,
     fail |-> fail, err |-> FALSE, injected |-> FALSE]

\* the states of a picture id: generated only, created, freed
NoPicture   == [state |-> "none",  content |-> None]
FreedPicture == [state |-> "freed", content |-> None]
LivePicture(content) == [state |-> "live", content |-> Some(content)]

\* a picture id names a picture of the server
PictureExists(pics, xid) == xid \in DOMAIN pics /\ pics[xid].state = "live"

\* xtry!(...) and .request_check(): a checked request. It fails when the protocol
\* refuses it (~valid) or when the server fails it.
Checked(st, req, valid) ==
    IF st.err THEN st
    ELSE LET n    == st.checked + 1
             sent == [st EXCEPT !.reqs = Append(@, req), !.checked = n]
         IN  IF ~valid THEN [sent EXCEPT !.err = TRUE]
             ELSE IF n = st.fail THEN [sent EXCEPT !.err = TRUE, !.injected = TRUE]
             ELSE sent

\* a request nobody checks: an error of it is dropped
Unchecked(st, req) ==
    IF st.err THEN st ELSE [st EXCEPT !.reqs = Append(@, req)]

\* Bar::composite_picture: composite a picture over the window's picture.
\* RENDER refuses a source that is no picture.
composite_picture(st, pic, srcx, tarx, w, h) ==
    Checked(st, <<"composite", pic, srcx, tarx, w, h>>, PictureExists(st.pics, pic))

\* BarComponent::redraw of the component at index i of the registry
redraw(st, i) ==
    LET c == st.comps[i]
    IN  composite_picture(st, c.picture, 0, c.geometry.x, c.geometry.width, c.geometry.height)

\* render, lines 48 to 51: the pixmap of the new surface.
\* The core protocol refuses a pixmap of width or height 0.
create_pixmap(st, w, h) ==
    LET st1 == Checked(st, <<"create_pixmap", w, h>>, w > 0 /\ h > 0)
    IN  Checked(st1, <<"poly_fill_rectangle", w, h>>, TRUE)

\* render_background: the color, then the image
render_background(st, decl, w, h) ==
    LET st1 == IF decl.color
               THEN LET a == Checked(st, <<"create_gc">>, TRUE)
                        b == Checked(a, <<"poly_fill_rectangle", w, h>>, TRUE)
                    IN  Unchecked(b, <<"free_gc">>)
               ELSE st
    IN  IF IsSome(decl.image)
        THEN Checked(st1, <<"put_image", Unwrap(decl.image)>>, TRUE)
        ELSE st1

\* clear_old_components: composite the bar's background over what the bucket leaves
clear_old_components(st, sel, new_start, width_change) ==
    LET old_width_all == I16(sum_u16(Widths(sel)))
        old_start     == sel[1].geometry.x
        st1 == IF old_start < new_start
               THEN composite_picture(st, background, old_start, old_start,
                                      U16(new_start - old_start), BarHeight)
               ELSE st
        old_end == I16(old_start + old_width_all)
        new_end == I16(old_end - width_change)
    IN  IF old_end > new_end
        THEN composite_picture(st1, background, new_end, new_end,
                               U16(old_end - new_end), BarHeight)
        ELSE st1

\* render, lines 92 to 105, for the component of the cycle: free the picture and
\* create it again, under the same id, from the new pixmap
swap_picture(st, pict, decl) ==
    LET st0 == Unchecked(st, <<"free_picture", pict>>)
        st1 == IF ~st.err /\ PictureExists(st.pics, pict)
               THEN [st0 EXCEPT !.pics[pict] = FreedPicture] ELSE st0
        st2 == Checked(st1, <<"create_picture", pict>>, ~PictureExists(st1.pics, pict))
        st3 == IF ~st2.err THEN [st2 EXCEPT !.pics[pict] = LivePicture(decl)] ELSE st2
    IN  Unchecked(st3, <<"free_pixmap">>)

\* the loop of render where only the component of the cycle is redrawn; the
\* others get their geometry and stay where they were on the window
RECURSIVE redraw_selected_own(_, _, _, _, _, _, _)
redraw_selected_own(st, idxs, id, w, h, x, decl) ==
    IF idxs = <<>> \/ st.err THEN st
    ELSE LET i   == Head(idxs)
             c   == st.comps[i]
             own == c.id = id
             st1 == IF own THEN swap_picture(st, c.picture, decl) ELSE st
             cw  == IF own THEN w ELSE c.geometry.width
             ch  == IF own THEN h ELSE c.geometry.height
             st2 == IF st1.err THEN st1
                    ELSE [st1 EXCEPT !.comps[i].geometry = Geometry(x, 0, cw, ch)]
             st3 == IF own /\ cw > 0 /\ ch > 0 THEN redraw(st2, i) ELSE st2
             x1  == IF cw > 0 /\ ch > 0 THEN I16(x + I16(cw)) ELSE x
         IN  redraw_selected_own(st3, Tail(idxs), id, w, h, x1, decl)

\* render, lines 90 to 115: lay out and redraw the selected components, from x on
RECURSIVE redraw_selected(_, _, _, _, _, _, _)
redraw_selected(st, idxs, id, w, h, x, decl) ==
    IF idxs = <<>> \/ st.err THEN st
    ELSE LET i   == Head(idxs)
             c   == st.comps[i]
             own == c.id = id
             st1 == IF own THEN swap_picture(st, c.picture, decl) ELSE st
             cw  == IF own THEN w ELSE c.geometry.width
             ch  == IF own THEN h ELSE c.geometry.height
             st2 == IF st1.err THEN st1
                    ELSE [st1 EXCEPT !.comps[i].geometry = Geometry(x, 0, cw, ch)]
             st3 == IF cw > 0 /\ ch > 0 THEN redraw(st2, i) ELSE st2
             x1  == IF cw > 0 /\ ch > 0 THEN I16(x + I16(cw)) ELSE x
         IN  redraw_selected(st3, Tail(idxs), id, w, h, x1, decl)

\* render where the offset is taken with the width the component had before
render_locked_oldwidth(st, id, w, h, decl) ==
    LET own == CHOOSE i \in DOMAIN st.comps : st.comps[i].id = id
        x   == xoffset_by_id(st.comps, id, st.comps[own].geometry.width, BarWidth)
        st1 == render_background(st, decl, w, h)
        st2 == IF st1.err THEN st1 ELSE [st1 EXCEPT !.comps = sort_by_id(@)]
        idxs == FilterIdx([i \in DOMAIN st2.comps |-> Selected(st2.comps[i], id)])
        sel  == Pick(st2.comps, idxs)
        comp_index == IF \E k \in 1..Len(sel) : sel[k].id = id
                      THEN CHOOSE k \in 1..Len(sel) : sel[k].id = id ELSE 1
        width_change == sel[comp_index].geometry.width - w
        st3 == IF ~st2.err /\ width_change > 0
               THEN clear_old_components(st2, sel, x, I16(width_change))
               ELSE st2
    IN  redraw_selected(st3, idxs, id, w, h, x, decl)

\* render, lines 53 to 116: the part of a cycle that holds the registry lock.
\* render_text draws with cairo and sends no checked request.
render_locked(st, id, w, h, decl) ==
    LET x   == xoffset_by_id(st.comps, id, w, BarWidth)
        st1 == render_background(st, decl, w, h)
        st2 == IF st1.err THEN st1 ELSE [st1 EXCEPT !.comps = sort_by_id(@)]
        idxs == FilterIdx([i \in DOMAIN st2.comps |-> Selected(st2.comps[i], id)])
        sel  == Pick(st2.comps, idxs)
        comp_index == IF \E k \in 1..Len(sel) : sel[k].id = id
                      THEN CHOOSE k \in 1..Len(sel) : sel[k].id = id ELSE 1
        width_change == sel[comp_index].geometry.width - w
        st3 == IF ~st2.err /\ width_change > 0
               THEN clear_old_components(st2, sel, x, I16(width_change))
               ELSE st2
    IN  redraw_selected(st3, idxs, id, w, h, x, decl)

----------------------------------------------------------------------------
(* What a component declares when a cycle asks it: src/src/component.rs *)

\* the results of Component::width, ::background and ::text: color says whether the
\* background has a color, image and text hold the width of the image and of the text
Decl(width, color, image, text) ==
    [width |-> width, color |-> color, image |-> image, text |-> text]

\* the declarations the components of the model choose from
Decls ==
    { Decl(WidthNew, FALSE, None, Some(30)),
      Decl(WidthNew, FALSE, Some(50), None),
      Decl(WidthNew, TRUE, None, None),
      Decl([WidthNew EXCEPT !.fixed = Some(300)], TRUE, None, None) }

\* the picture of the bar's background image
BarBackground == Decl(WidthNew, FALSE, Some(BarWidth), None)

\* the width render computes for a declaration
DeclWidth(decl) == calculate_width(BarWidth, decl.width, decl.image, decl.text)

\* conn.generate_id(): an id no picture has yet
NewXid(pics) == Cardinality(DOMAIN pics) + 1

\* the server may fail one of the next n checked requests, or none
FailChoices(n) == IF faults < limit.faults THEN 0..n ELSE {0}

\* the index of the entry of id in the registry
IndexOf(comps, id) == CHOOSE i \in DOMAIN comps : comps[i].id = id

Ids == {components[i].id : i \in DOMAIN components}

NoOps == [kind |-> "none"]
NoCall == [fn |-> "none"]
NoLocal == <<>>

----------------------------------------------------------------------------
(* Initial state: Bar::new *)

Start ==
    /\ components = <<>>
    /\ component_ids = <<0, 1, 2>>
    /\ lock = "free"
    /\ pc = <<>>
    /\ local = <<>>
    /\ background \in {0, 1}
    /\ pictures = IF background = 0 THEN <<>> ELSE <<LivePicture(BarBackground)>>
    /\ xpc = "wait"
    /\ queue = <<>>
    /\ stale = <<>>
    /\ events = 0
    /\ ticks = 0
    /\ faults = 0
    /\ ops = NoOps
    /\ call = NoCall
    /\ arcs = <<>>

\* a bar whose server fails requests and whose timers fire; its user is quiet
Init ==
    /\ Start
    /\ limit = [components |-> MaxComponents, faults |-> MaxFaults,
                events |-> 0, ticks |-> MaxTicks]

\* a bar whose user clicks and whose timers fire; its server fails no request
InitEvents ==
    /\ Start
    /\ limit = [components |-> MaxComponents, faults |-> 0,
                events |-> MaxEvents, ticks |-> MaxTicks]

\* a bar with more components, whose server and user are quiet
InitLayout ==
    /\ Start
    /\ limit = [components |-> MaxLayoutComponents, faults |-> 0,
                events |-> 0, ticks |-> 0]

----------------------------------------------------------------------------
(* Registration: Bar::draw, lines 266 to 279, with the id of Alignment::id. *)
(* The caller waits for the registry lock.                                  *)

Register(alignment) ==
    /\ Len(components) < limit.components
    /\ lock = "free"
    /\ LET index == AlignmentIndex(alignment) + 1
           id    == component_ids[index]
           xid   == NewXid(pictures)
       IN  /\ component_ids' = [component_ids EXCEPT ![index] = @ + 3]
           /\ components' = Append(components, BarComponent(id, xid))
           /\ pictures' = pictures @@ (xid :> NoPicture)
           /\ pc' = pc @@ (id :> "Redrawing")
           /\ local' = local @@ (id :> NoLocal)
           /\ queue' = queue @@ (id :> 0)
           /\ stale' = stale @@ (id :> 0)
    /\ ops' = NoOps
    /\ UNCHANGED <<lock, background, xpc, events, faults, call, arcs, ticks, limit>>

----------------------------------------------------------------------------
(* The redraw cycle: render *)

\* render, lines 17 to 55: measure, create the pixmap, take the registry lock.
\* An error of the pixmap ends the cycle before it takes the lock.
RenderBegin(id) ==
    /\ pc[id] = "Redrawing"
    /\ \E decl \in Decls, fail \in FailChoices(2) :
          LET w  == DeclWidth(decl)
              h  == BarHeight
              st == create_pixmap(Conn(components, pictures, <<>>, fail), w, h)
          IN  /\ fail = 0 \/ st.injected
              /\ faults' = IF st.injected THEN faults + 1 ELSE faults
              /\ IF st.err
                 THEN /\ pc' = [pc EXCEPT ![id] = "Drawn"]
                      /\ ops' = [kind |-> "render", id |-> id, result |-> "err",
                                 reqs |-> st.reqs, before |-> components,
                                 pictures |-> pictures, w |-> w, decl |-> decl]
                      /\ UNCHANGED <<lock, local>>
                 ELSE /\ lock # "comp" /\ lock # "xev"
                      /\ IF lock = "free"
                         THEN /\ lock' = "comp"
                              /\ pc' = [pc EXCEPT ![id] = "Locked"]
                              /\ local' = [local EXCEPT ![id] =
                                              [decl |-> decl, w |-> w, h |-> h, reqs |-> st.reqs]]
                         ELSE /\ pc' = [pc EXCEPT ![id] = "Panicked"]
                              /\ UNCHANGED <<lock, local>>
                      /\ ops' = NoOps
    /\ UNCHANGED <<components, component_ids, pictures, background, xpc,
                   queue, stale, events, call, arcs, ticks, limit>>

\* render, lines 55 to 122: the cycle under the lock, and the release of the lock
RenderLocked(id) ==
    /\ pc[id] = "Locked"
    /\ \E fail \in FailChoices(2 * Len(components) + 6) :
          LET l  == local[id]
              st == render_locked(Conn(components, pictures, l.reqs, fail), id, l.w, l.h, l.decl)
          IN  /\ fail = 0 \/ st.injected
              /\ faults' = IF st.injected THEN faults + 1 ELSE faults
              /\ components' = st.comps
              /\ pictures' = st.pics
              /\ ops' = [kind |-> "render", id |-> id,
                         result |-> IF st.err THEN "err" ELSE "ok",
                         reqs |-> st.reqs, before |-> components,
                         pictures |-> pictures, w |-> l.w, decl |-> l.decl]
    /\ lock' = "free"
    /\ pc' = [pc EXCEPT ![id] = "Drawn"]
    /\ local' = [local EXCEPT ![id] = NoLocal]
    /\ UNCHANGED <<component_ids, background, xpc, queue, stale, events, call, arcs, ticks, limit>>

----------------------------------------------------------------------------
(* The control loop of a component, after the redraw cycle has returned.          *)
(* Its states are Redrawing, Locked (inside render, under the lock), Drawn        *)
(* (render has returned), Idle and Panicked.                                      *)

\* Redrawing to Idle: a fresh interrupt channel goes into the registry entry.
\* What the previous channel still holds is read by nobody.
RefreshInterrupt(id) ==
    /\ pc[id] = "Drawn"
    /\ lock # "comp" /\ lock # "xev"
    /\ IF lock = "free"
       THEN /\ components' = [components EXCEPT ![IndexOf(components, id)].interrupt = Some("tx")]
            /\ stale' = [stale EXCEPT ![id] = @ + queue[id]]
            /\ queue' = [queue EXCEPT ![id] = 0]
            /\ pc' = [pc EXCEPT ![id] = "Idle"]
       ELSE /\ pc' = [pc EXCEPT ![id] = "Panicked"]
            /\ UNCHANGED <<components, stale, queue>>
    /\ ops' = NoOps
    /\ UNCHANGED <<component_ids, lock, local, pictures, background, xpc,
                   events, faults, call, arcs, ticks, limit>>

\* the redraw timer pings a loop in any of its waits
TimerPing_any(id) ==
    /\ pc[id] \in {"Idle", "IdleForever", "Terminated"}
    /\ ticks < limit.ticks
    /\ ticks' = ticks + 1
    /\ pc' = [pc EXCEPT ![id] = "Redrawing"]
    /\ ops' = NoOps
    /\ UNCHANGED <<components, component_ids, lock, local, pictures, background, xpc,
                   queue, stale, events, faults, call, arcs, limit>>

\* Idle: the redraw timer pings
TimerPing(id) ==
    /\ pc[id] = "Idle"
    /\ ticks < limit.ticks
    /\ ticks' = ticks + 1
    /\ pc' = [pc EXCEPT ![id] = "Redrawing"]
    /\ ops' = NoOps
    /\ UNCHANGED <<components, component_ids, lock, local, pictures, background, xpc,
                   queue, stale, events, faults, call, arcs, limit>>

\* Idle: an event comes out of the interrupt channel, and the loop redraws whatever
\* the handler of the component says
Interrupt_redraws(id) ==
    /\ pc[id] = "Idle"
    /\ queue[id] > 0
    /\ queue' = [queue EXCEPT ![id] = @ - 1]
    /\ \E requires_redraw \in BOOLEAN :
          /\ pc' = [pc EXCEPT ![id] = "Redrawing"]
          /\ ops' = [kind |-> "event", id |-> id, requires_redraw |-> requires_redraw]
    /\ UNCHANGED <<components, component_ids, lock, local, pictures, background, xpc,
                   stale, events, faults, call, arcs, ticks, limit>>

\* Idle: an event comes out of the interrupt channel; the handler of the component
\* says whether it requires a redraw
Interrupt(id) ==
    /\ pc[id] = "Idle"
    /\ queue[id] > 0
    /\ queue' = [queue EXCEPT ![id] = @ - 1]
    /\ \E requires_redraw \in BOOLEAN :
          /\ pc' = [pc EXCEPT ![id] = IF requires_redraw THEN "Redrawing" ELSE "Idle"]
          /\ ops' = [kind |-> "event", id |-> id, requires_redraw |-> requires_redraw]
    /\ UNCHANGED <<components, component_ids, lock, local, pictures, background, xpc,
                   stale, events, faults, call, arcs, ticks, limit>>

----------------------------------------------------------------------------
(* The X event loop: Bar::start_event_loop *)

\* a geometry contains the x of an event, its right edge included
Contains_closed(geometry, x) == geometry.x <= x /\ x <= geometry.x + geometry.width

\* a geometry contains the x of an event
Contains(geometry, x) == geometry.x <= x /\ x < geometry.x + geometry.width

\* the x of the events at the component at index i: its first pixel, its last
\* pixel, the first pixel behind it
EventXs(i) ==
    LET geometry == components[i].geometry
    IN  {geometry.x, geometry.x + geometry.width - 1, geometry.x + geometry.width}

\* an interaction event at the component at index i: under the lock, every
\* component whose geometry contains it gets it through its sender
Dispatch(i) ==
    /\ xpc = "wait"
    /\ events < limit.events
    /\ components[i].geometry.width > 0
    /\ lock # "comp" /\ lock # "xev"
    /\ \E x \in EventXs(i) :
          /\ IF lock = "free"
             THEN /\ queue' = [id \in DOMAIN queue |->
                         LET c == components[IndexOf(components, id)]
                         IN  IF Contains(c.geometry, x) /\ IsSome(c.interrupt)
                             THEN queue[id] + 1 ELSE queue[id]]
                  /\ xpc' = xpc
             ELSE /\ xpc' = "panicked"
                  /\ queue' = queue
          /\ ops' = [kind |-> "dispatch", x |-> x]
    /\ events' = events + 1
    /\ UNCHANGED <<components, component_ids, lock, pc, local, pictures, background,
                   stale, faults, call, arcs, ticks, limit>>

\* an exposure whose handler goes on without waiting for the registry lock
ExposeBegin_unlocked ==
    /\ xpc = "wait"
    /\ \E fail \in FailChoices(1) :
          LET st0 == Conn(components, pictures, <<>>, fail)
              st  == IF background # 0
                     THEN composite_picture(st0, background, 0, 0, BarWidth, BarHeight)
                     ELSE st0
          IN  /\ fail = 0 \/ st.injected
              /\ faults' = IF st.injected THEN faults + 1 ELSE faults
              /\ IF st.err
                 THEN /\ xpc' = "panicked"
                      /\ lock' = lock
                 ELSE IF lock = "free" \/ lock = "comp"
                      THEN xpc' = "locked" /\ lock' = "xev"
                      ELSE xpc' = "panicked" /\ lock' = lock
              /\ ops' = [kind |-> "expose_begin", reqs |-> st.reqs]
    /\ UNCHANGED <<components, component_ids, pc, local, pictures, background,
                   queue, stale, events, call, arcs, ticks, limit>>

\* lines 241 to 249: an exposure. The background goes over the bar, then the
\* handler takes the lock; unwrap() panics on an error.
ExposeBegin ==
    /\ xpc = "wait"
    /\ \E fail \in FailChoices(1) :
          LET st0 == Conn(components, pictures, <<>>, fail)
              st  == IF background # 0
                     THEN composite_picture(st0, background, 0, 0, BarWidth, BarHeight)
                     ELSE st0
          IN  /\ fail = 0 \/ st.injected
              /\ faults' = IF st.injected THEN faults + 1 ELSE faults
              /\ IF st.err
                 THEN /\ xpc' = "panicked"
                      /\ lock' = lock
                 ELSE /\ lock # "comp"
                      /\ IF lock = "free"
                         THEN xpc' = "locked" /\ lock' = "xev"
                         ELSE xpc' = "panicked" /\ lock' = lock
              /\ ops' = [kind |-> "expose_begin", reqs |-> st.reqs]
    /\ UNCHANGED <<components, component_ids, pc, local, pictures, background,
                   queue, stale, events, call, arcs, ticks, limit>>

\* the loop of the exposure handler that ends behind the first component
redraw_all_first(st, i) ==
    IF i > Len(st.comps) \/ st.err THEN st
    ELSE LET geometry == st.comps[i].geometry
         IN  IF geometry.width > 0 /\ geometry.height > 0 THEN redraw(st, i) ELSE st

\* lines 250 to 255: redraw every component of nonzero size
RECURSIVE redraw_all(_, _)
redraw_all(st, i) ==
    IF i > Len(st.comps) \/ st.err THEN st
    ELSE LET geometry == st.comps[i].geometry
         IN  redraw_all(IF geometry.width > 0 /\ geometry.height > 0
                        THEN redraw(st, i) ELSE st, i + 1)

\* an exposure handler whose panic leaves the mutex locked
ExposeRedraw_stuck ==
    /\ xpc = "locked"
    /\ \E fail \in FailChoices(Len(components)) :
          LET st == redraw_all(Conn(components, pictures, <<>>, fail), 1)
          IN  /\ fail = 0 \/ st.injected
              /\ faults' = IF st.injected THEN faults + 1 ELSE faults
              /\ xpc' = IF st.err THEN "panicked" ELSE "wait"
              /\ lock' = IF st.err THEN "xev" ELSE "free"
              /\ ops' = [kind |-> "expose", result |-> IF st.err THEN "err" ELSE "ok",
                         reqs |-> st.reqs]
    /\ UNCHANGED <<components, component_ids, pc, local, pictures, background,
                   queue, stale, events, call, arcs, ticks, limit>>

\* lines 249 to 256: the redraw under the lock. A panic leaves the mutex poisoned.
ExposeRedraw ==
    /\ xpc = "locked"
    /\ \E fail \in FailChoices(Len(components)) :
          LET st == redraw_all(Conn(components, pictures, <<>>, fail), 1)
          IN  /\ fail = 0 \/ st.injected
              /\ faults' = IF st.injected THEN faults + 1 ELSE faults
              /\ xpc' = IF st.err THEN "panicked" ELSE "wait"
              /\ lock' = IF st.err THEN "poisoned" ELSE "free"
              /\ ops' = [kind |-> "expose", result |-> IF st.err THEN "err" ELSE "ok",
                         reqs |-> st.reqs]
    /\ UNCHANGED <<components, component_ids, pc, local, pictures, background,
                   queue, stale, events, call, arcs, ticks, limit>>

----------------------------------------------------------------------------
(* The bar with its components *)

Next ==
    \/ \E alignment \in Alignments : Register(alignment)
    \/ \E id \in Ids : RenderBegin(id)
    \/ \E id \in Ids : RenderLocked(id)
    \/ \E id \in Ids : RefreshInterrupt(id)
    \/ \E id \in Ids : TimerPing(id)
    \/ ExposeBegin
    \/ ExposeRedraw

Spec == Init /\ [][Next]_vars

\* the bar with the events of its user
NextEvents ==
    \/ Next
    \/ \E id \in Ids : Interrupt(id)
    \/ \E i \in DOMAIN components : Dispatch(i)

SpecEvents == InitEvents /\ [][NextEvents]_vars

\* the components alone: no X event arrives
NextLayout ==
    \/ \E alignment \in Alignments : Register(alignment)
    \/ \E id \in Ids : RenderBegin(id)
    \/ \E id \in Ids : RenderLocked(id)
    \/ \E id \in Ids : RefreshInterrupt(id)

SpecLayout == InitLayout /\ [][NextLayout]_vars

----------------------------------------------------------------------------
(* What the most recent step was *)

\* the step was the end of a redraw cycle of id
Cycle(id) == ops.kind = "render" /\ ops.id = id
CycleOk(id) == Cycle(id) /\ ops.result = "ok"
CycleErr(id) == Cycle(id) /\ ops.result = "err"

\* the entry of id in a registry
Entry(comps, id) == comps[IndexOf(comps, id)]

\* the cycle sent a request of this kind
Sent(kind) == \E k \in DOMAIN ops.reqs : ops.reqs[k][1] = kind

\* the cycle composited the picture pic to x
Blitted(pic, x) ==
    \E k \in DOMAIN ops.reqs :
        /\ ops.reqs[k][1] = "composite"
        /\ ops.reqs[k][2] = pic
        /\ ops.reqs[k][4] = x

----------------------------------------------------------------------------
(* Errors of a redraw cycle *)

\* C1: when a request of a component's redraw cycle fails, the cycle ends with an
\* error and the registry entry of the component still has the geometry it had
\* before the cycle, and its picture is still the surface it was before the cycle.
C1_FailedCycleKeepsEntry ==
    \A id \in Ids :
        CycleErr(id) =>
            LET now == Entry(components, id)
                old == Entry(ops.before, id)
            IN  /\ now.geometry = old.geometry
                /\ pictures[now.picture] = ops.pictures[old.picture]

\* a cycle failed and it left the picture of its component freed
C1_SurfaceLost ==
    \E id \in Ids :
        /\ CycleErr(id)
        /\ ops.pictures[Entry(ops.before, id).picture].state = "live"
        /\ pictures[Entry(components, id).picture].state = "freed"

\* C2: after a request has failed inside the redraw cycle of a component (here:
\* the one that creates its picture again), no thread is broken: the registry
\* lock is not poisoned, the exposure handler and every control loop go on.
C2_FailureStaysInItsCycle ==
    (\E id \in Ids : pictures[Entry(components, id).picture].state = "freed") =>
        /\ lock # "poisoned"
        /\ xpc # "panicked"
        /\ \A id \in Ids : pc[id] # "Panicked"

\* the cycle of one component has failed, and the loop of another one has
\* panicked at the poisoned lock
C2_OtherLoopBroken ==
    \E a, b \in Ids :
        /\ a # b
        /\ pictures[Entry(components, a).picture].state = "freed"
        /\ pc[a] # "Panicked"
        /\ pc[b] = "Panicked"

\* C3: an interaction event that arrives for a component while its redraw is in
\* progress is never lost: no event is left behind in a channel that was replaced.
C3_NoEventInStaleChannel ==
    \A id \in Ids : stale[id] = 0

\* C4: a redraw cycle of a component whose declaration and size are those of its
\* last build sends no request that builds a surface and none that blits.
C4_UnchangedCycleDoesNothing ==
    \A id \in Ids :
        (/\ CycleOk(id)
         /\ ops.pictures[Entry(ops.before, id).picture] = LivePicture(ops.decl)
         /\ Entry(ops.before, id).geometry.width = ops.w
         /\ Entry(ops.before, id).geometry.height = BarHeight)
        => (/\ ~Sent("create_pixmap")
            /\ ~Sent("create_picture")
            /\ ~Sent("composite"))

----------------------------------------------------------------------------
(* The width of a component, as a function of its inputs *)

\* the inputs the calls of calculate_width draw from
FixedWidths == {None, Some(0), Some(30), Some(200), Some(300)}
MinWidths == {0, 30, 250}
MaxWidths == {20, 100, U16Max}
ImageWidths == {None, Some(50), Some(300)}
TextWidths == {None, Some(30), Some(120)}
BarWidths == {100, BarWidth}

\* the bar, and the inputs of a call of calculate_width
InitWidth ==
    /\ components = <<>>
    /\ component_ids = <<0, 1, 2>>
    /\ lock = "free"
    /\ pc = <<>>
    /\ local = <<>>
    /\ background \in {0, 1}
    /\ pictures = IF background = 0 THEN <<>> ELSE <<LivePicture(BarBackground)>>
    /\ xpc = "wait"
    /\ queue = <<>>
    /\ stale = <<>>
    /\ events = 0
    /\ ticks = 0
    /\ faults = 0
    /\ ops = NoOps
    /\ arcs = <<>>
    /\ limit = [components |-> 0, faults |-> 0, events |-> 0, ticks |-> 0]
    /\ \E fixed \in FixedWidths, min \in MinWidths, max \in MaxWidths,
          ignore_background \in BOOLEAN, ignore_text \in BOOLEAN,
          image \in ImageWidths, text \in TextWidths, bar_width \in BarWidths :
          call = [fn |-> "calculate_width", bar_width |-> bar_width,
                  width |-> [fixed |-> fixed, min |-> min, max |-> max,
                             ignore_background |-> ignore_background,
                             ignore_text |-> ignore_text],
                  image |-> image, text |-> text, result |-> None]

\* the call of calculate_width
CallWidth ==
    /\ call.fn = "calculate_width"
    /\ call.result = None
    /\ call' = [call EXCEPT !.result =
                   Some(calculate_width(call.bar_width, call.width, call.image, call.text))]
    /\ UNCHANGED <<components, component_ids, lock, pc, local, pictures, background, xpc,
                   queue, stale, events, ticks, limit, faults, ops, arcs>>

NextWidth == CallWidth

SpecWidth == InitWidth /\ [][NextWidth]_vars

\* calculate_width has returned, and what
Called == call.fn = "calculate_width" /\ IsSome(call.result)
Result == Unwrap(call.result)

\* C5: with a fixed width f declared, the width of a component is min(f, bar_width),
\* whatever else is declared and measured: a fixed width of 300 gives 200 on a
\* bar of width 200.
C5_FixedWidthClampedToBar ==
    (Called /\ IsSome(call.width.fixed)) =>
        Result = Min(Unwrap(call.width.fixed), call.bar_width)

\* a fixed width of 300 on a bar of width 200
C5_Fixed300On200 ==
    /\ Called
    /\ call.width.fixed = Some(300)
    /\ call.bar_width = 200
    /\ Result = 300

\* C6, as stated: with no fixed width declared, the width of a component is within
\* [0, bar_width] and within [min, max], for every combination of the inputs.
C6_WidthWithinBarAndMinMax ==
    (Called /\ ~IsSome(call.width.fixed)) =>
        /\ 0 <= Result /\ Result <= call.bar_width
        /\ call.width.min <= Result /\ Result <= call.width.max

\* C6, amended: with no fixed width declared, the width of a component is within
\* [0, bar_width] and at most max; it is at least min where min is neither
\* larger than max nor larger than bar_width.
C6_WidthWithinBarAndMax ==
    (Called /\ ~IsSome(call.width.fixed)) =>
        /\ 0 <= Result /\ Result <= call.bar_width
        /\ Result <= call.width.max
        /\ (call.width.min <= call.width.max /\ call.width.min <= call.bar_width)
               => call.width.min <= Result

\* no fixed width, and an image wider than the bar and than the maximum
C6_ImageWiderThanBar ==
    /\ Called
    /\ ~IsSome(call.width.fixed)
    /\ IsSome(call.image) /\ ~call.width.ignore_background
    /\ Unwrap(call.image) > call.bar_width
    /\ call.width.min > 0 /\ call.width.min <= call.bar_width
    /\ call.width.max >= call.bar_width
    /\ Result = call.bar_width

----------------------------------------------------------------------------
(* The layout of the buckets *)

\* the ids of a bucket: 0 left, 1 center, 2 right
BucketIds(b) == {id \in Ids : id % 3 = b}
\* the components of the bucket of id that come before it
Below(id) == {j \in BucketIds(id % 3) : j < id}
FirstOf(b) == CHOOSE id \in BucketIds(b) : \A j \in BucketIds(b) : id <= j
LastOf(b) == CHOOSE id \in BucketIds(b) : \A j \in BucketIds(b) : id >= j

XOf(id) == Entry(components, id).geometry.x
WidthOf(id) == Entry(components, id).geometry.width
PictureOf(id) == Entry(components, id).picture

\* the sum of the widths of a set of components
RECURSIVE SumOf(_)
SumOf(S) ==
    IF S = {} THEN 0
    ELSE LET id == CHOOSE id \in S : TRUE IN WidthOf(id) + SumOf(S \ {id})

----------------------------------------------------------------------------
(* The layout of a bucket between the cycles *)

\* the component of the bucket of id that comes right before it
PrevOf(id) == CHOOSE j \in Below(id) : \A k \in Below(id) : j >= k

\* the components of the bucket of id before it that have a width
WideBelow(id) == {j \in Below(id) : WidthOf(j) > 0}
PrevWideOf(id) == CHOOSE j \in WideBelow(id) : \A k \in WideBelow(id) : j >= k

\* C11: whenever the registry lock is free, every component starts where the
\* previous component of its bucket ends: its x is the x of the component of the
\* next smaller id of the bucket plus the width of that component.
C11_BucketContiguous ==
    lock = "free" =>
        \A id \in Ids :
            Below(id) # {} => XOf(id) = XOf(PrevOf(id)) + WidthOf(PrevOf(id))

\* C11, for the components a cycle has given a width: whenever the registry lock
\* is free, each of them starts where the previous component with a width of its
\* bucket ends. The claim implies it: a component without a width ends where it
\* starts.
C11_WideContiguous ==
    lock = "free" =>
        \A id \in Ids :
            (WidthOf(id) > 0 /\ WideBelow(id) # {})
                => XOf(id) = XOf(PrevWideOf(id)) + WidthOf(PrevWideOf(id))

----------------------------------------------------------------------------
(* The ids of the registry: Bar::draw with the position its component declares *)

\* number of components that get registered where only registrations are looked at
MaxDrawn == 3
\* the largest ordinal a component declares
MaxOrdinal == 2

\* ComponentPosition::new
ComponentPosition(alignment, ordinal) == [alignment |-> alignment, ordinal |-> ordinal]

\* ComponentPosition::unique_id; the ordinals of the model are far from where
\* ordinal * 3 leaves u32
unique_id(position) == position.ordinal * 3 + AlignmentIndex(position.alignment)

\* the positions the components of the model declare
Positions == {ComponentPosition(a, o) : a \in Alignments, o \in 0..MaxOrdinal}

\* a bar on which components get registered and no thread has run yet
InitDraw ==
    /\ Start
    /\ limit = [components |-> MaxDrawn, faults |-> 0, events |-> 0, ticks |-> 0]

\* Bar::draw, lines 266 to 279: the id is the one the position of the component
\* gives, the entry goes to the end of the registry, the thread of the component
\* is spawned
Draw(position) ==
    /\ Len(components) < limit.components
    /\ lock = "free"
    /\ LET id  == unique_id(position)
           xid == NewXid(pictures)
       IN  /\ components' = Append(components, BarComponent(id, xid))
           /\ pictures' = pictures @@ (xid :> NoPicture)
           /\ pc' = pc @@ (id :> "Redrawing")
           /\ local' = local @@ (id :> NoLocal)
           /\ queue' = queue @@ (id :> 0)
           /\ stale' = stale @@ (id :> 0)
           /\ ops' = [kind |-> "draw", position |-> position, id |-> id]
    /\ UNCHANGED <<component_ids, lock, background, xpc, events, faults, call, arcs, ticks, limit>>

NextDraw == \E position \in Positions : Draw(position)

SpecDraw == InitDraw /\ [][NextDraw]_vars

\* C12: for any sequence of registrations the ids of the registry are pairwise
\* distinct (no id is handed out twice), the id of a registration is its bucket
\* modulo 3, and within a bucket a later registration has a larger id.
C12_IdsDistinctAndIncreasing ==
    /\ \A i, j \in DOMAIN components :
          i < j => /\ components[i].id # components[j].id
                   /\ (components[i].id % 3 = components[j].id % 3
                          => components[i].id < components[j].id)
    /\ ops.kind = "draw" => ops.id % 3 = AlignmentIndex(ops.position.alignment)

\* two components that declare the same position are in the registry
C12_SameIdTwice ==
    \E i, j \in DOMAIN components : i < j /\ components[i].id = components[j].id

----------------------------------------------------------------------------
(* The control loop and its redraw timer *)

\* the loop of id has left Idle for a redraw: its entry has an interrupt sender,
\* which the loop registers on its way to Idle
Woken(id) == pc[id] = "Redrawing" /\ IsSome(Entry(components, id).interrupt)

\* C13: a control loop that a timer ping has taken from Idle to Redrawing goes on
\* into one redraw cycle: its next step is render, which takes the lock or ends
\* at a failed request, never the end of the loop.
C13_PingLeadsToCycle ==
    [][\A id \in Ids :
          (Woken(id) /\ pc'[id] # pc[id]) => pc'[id] \in {"Locked", "Drawn"}]_vars

\* a loop that a timer ping woke has ended without a redraw cycle
C13_PingWithoutCycle ==
    \E id \in Ids :
        /\ pc[id] = "Panicked"
        /\ ticks = 1
        /\ lock = "poisoned"
        /\ pictures[PictureOf(id)].state = "live"

----------------------------------------------------------------------------
(* Components with an update hook: examples/time.rs, examples/volume.rs *)

\* a bar whose components have an update hook; its server and its user are quiet
InitUpdate ==
    /\ Start
    /\ limit = [components |-> MaxComponents, faults |-> 0,
                events |-> 0, ticks |-> MaxTicks]

\* Idle: the redraw timer pings, and the loop redraws whatever update() returns
Update_redraws(id) ==
    /\ pc[id] = "Idle"
    /\ ticks < limit.ticks
    /\ ticks' = ticks + 1
    /\ \E changed \in BOOLEAN :
          /\ pc' = [pc EXCEPT ![id] = "Redrawing"]
          /\ ops' = [kind |-> "update", id |-> id, changed |-> changed]
    /\ UNCHANGED <<components, component_ids, lock, local, pictures, background, xpc,
                   queue, stale, events, faults, call, arcs, limit>>

\* Idle: the redraw timer pings (redraw_timer) and the loop asks update() whether
\* the component has changed. Without a change it skips the redraw cycle and goes
\* on to its next wait. The first iteration of a loop draws: the examples' update()
\* returns true on its first call.
Update(id) ==
    /\ pc[id] = "Idle"
    /\ ticks < limit.ticks
    /\ ticks' = ticks + 1
    /\ \E changed \in BOOLEAN :
          /\ pc' = [pc EXCEPT ![id] = IF changed THEN "Redrawing" ELSE "Drawn"]
          /\ ops' = [kind |-> "update", id |-> id, changed |-> changed]
    /\ UNCHANGED <<components, component_ids, lock, local, pictures, background, xpc,
                   queue, stale, events, faults, call, arcs, limit>>

NextUpdate ==
    \/ \E alignment \in Alignments : Register(alignment)
    \/ \E id \in Ids : RenderBegin(id)
    \/ \E id \in Ids : RenderLocked(id)
    \/ \E id \in Ids : RefreshInterrupt(id)
    \/ \E id \in Ids : Update(id)

SpecUpdate == InitUpdate /\ [][NextUpdate]_vars

----------------------------------------------------------------------------
(* The redraw timer of a component: none, or one whose source goes away *)

\* a bar whose components end their redraw timers; its server and its user are quiet
InitTimers ==
    /\ Start
    /\ limit = [components |-> MaxComponents, faults |-> 0,
                events |-> 0, ticks |-> MaxTicks]

\* Idle: the component has declared no redraw timer (timeout() is None), so the
\* wait of the loop has no timer to end it
TimeoutNone(id) ==
    /\ pc[id] = "Idle"
    /\ pc' = [pc EXCEPT ![id] = "IdleForever"]
    /\ ops' = [kind |-> "timeout", id |-> id, timeout |-> None]
    /\ UNCHANGED <<components, component_ids, lock, local, pictures, background, xpc,
                   queue, stale, events, faults, call, arcs, ticks, limit>>

\* Idle: the source of the redraw timer has disconnected; the loop ends and its
\* thread returns. The registry keeps the entry.
Disconnect(id) ==
    /\ pc[id] = "Idle"
    /\ pc' = [pc EXCEPT ![id] = "Terminated"]
    /\ ops' = [kind |-> "disconnect", id |-> id]
    /\ UNCHANGED <<components, component_ids, lock, local, pictures, background, xpc,
                   queue, stale, events, faults, call, arcs, ticks, limit>>

NextTimers ==
    \/ Next
    \/ \E id \in Ids : TimeoutNone(id)
    \/ \E id \in Ids : Disconnect(id)

SpecTimers == InitTimers /\ [][NextTimers]_vars

C17_DisconnectTerminates ==
    [][\A id \in Ids :
          /\ (ops'.kind = "disconnect" /\ ops'.id = id /\ ops' # ops) =>
                /\ pc[id] = "Idle" /\ pc'[id] = "Terminated"
                /\ components' = components /\ pictures' = pictures
                /\ lock' = lock /\ xpc' = xpc
          /\ pc[id] = "Terminated" =>
                /\ pc'[id] = "Terminated"
                /\ Entry(components', id).picture = PictureOf(id)
                /\ pictures'[PictureOf(id)] = pictures[PictureOf(id)]
          /\ (/\ pc[id] = "Terminated" /\ WidthOf(id) > 0
              /\ ops'.kind = "expose" /\ ops' # ops) =>
                /\ ops'.result = "ok"
                /\ \E k \in DOMAIN ops'.reqs :
                      ops'.reqs[k] = <<"composite", PictureOf(id), 0, XOf(id),
                                       WidthOf(id), BarHeight>>]_vars

\* an exposure has redrawn a component whose loop has terminated
C17_TerminatedStillShown ==
    \E id \in Ids :
        /\ pc[id] = "Terminated"
        /\ WidthOf(id) > 0
        /\ ops.kind = "expose"
        /\ ops.result = "ok"
        /\ Blitted(PictureOf(id), XOf(id))

\* number of components that get registered where timers go away and requests fail
MaxGone == 1

\* a bar whose timers fire and then go away, with a server that fails requests
InitGone ==
    /\ Start
    /\ limit = [components |-> MaxGone, faults |-> MaxFaults,
                events |-> 0, ticks |-> MaxTicks]

NextGone ==
    \/ Next
    \/ \E id \in Ids : Disconnect(id)

SpecGone == InitGone /\ [][NextGone]_vars

\* C17, with a server that fails requests of redraw cycles: an exposure that the
\* server itself does not fail composites every component of nonzero width whose
\* loop has terminated, at its place.
C17_TerminatedShownAtExposure ==
    [][\A id \in Ids :
          (/\ pc[id] = "Terminated" /\ WidthOf(id) > 0
           /\ ops'.kind = "expose" /\ ops' # ops /\ faults' = faults) =>
                /\ ops'.result = "ok"
                /\ \E k \in DOMAIN ops'.reqs :
                      ops'.reqs[k] = <<"composite", PictureOf(id), 0, XOf(id),
                                       WidthOf(id), BarHeight>>]_vars

\* the loop of a component has terminated after a failed cycle that freed its
\* surface, and the exposure that should show it has failed
C17_TerminatedNotShown ==
    \E id \in Ids :
        /\ pc[id] = "Terminated"
        /\ WidthOf(id) > 0
        /\ pictures[PictureOf(id)].state = "freed"
        /\ ops.kind = "expose"
        /\ ops.result = "err"

----------------------------------------------------------------------------
(* Cached pictures: Text::new, Image::new, and the Arc<Picture> they hold *)

\* number of cached pictures that get created
MaxCached == 2
\* number of owners a cached picture has at a time
MaxOwners == 2

\* the contents and the image widths the calls of the model draw from
Contents == {<<>>, <<"a">>, <<"a", "b", "c">>}
ImageSizes == {0, 50}

\* text_width: the pixel width pango gives the layout of a text; each character of
\* the model is 10 wide
text_width(content) == 10 * Len(content)

\* Text::new without the check of the content
text_new_unchecked(st, content) ==
    LET w       == text_width(content)
        st1     == create_pixmap(st, w, BarHeight)
        picture == NewXid(st.pics)
        st2     == Checked(st1, <<"create_picture", picture>>, TRUE)
    IN  IF st2.err THEN st2
        ELSE [Unchecked(st2, <<"free_pixmap">>) EXCEPT
                 !.pics = @ @@ (picture :> LivePicture([text |-> content, width |-> w]))]

\* Text::new: an empty content is an error before any request; then the pixmap,
\* the text drawn into it, the picture of the pixmap
text_new(st, content) ==
    IF content = <<>> THEN [st EXCEPT !.err = TRUE]
    ELSE LET w       == text_width(content)
             st1     == create_pixmap(st, w, BarHeight)
             picture == NewXid(st.pics)
             st2     == Checked(st1, <<"create_picture", picture>>, TRUE)
         IN  IF st2.err THEN st2
             ELSE [Unchecked(st2, <<"free_pixmap">>) EXCEPT
                      !.pics = @ @@ (picture :> LivePicture([text |-> content, width |-> w]))]

\* Image::new: the pixmap, the pixels put into it, the picture of the pixmap
image_new(st, w) ==
    LET st1     == Checked(st, <<"create_pixmap", w, BarHeight>>, w > 0)
        st2     == Checked(st1, <<"put_image", w, BarHeight>>, TRUE)
        picture == NewXid(st.pics)
        st3     == Checked(st2, <<"create_picture", picture>>, TRUE)
    IN  IF st3.err THEN st3
        ELSE [Unchecked(st3, <<"free_pixmap">>) EXCEPT
                 !.pics = @ @@ (picture :> LivePicture([image |-> w]))]

\* a bar whose application creates, clones and drops cached texts and images
InitCache ==
    /\ Start
    /\ limit = [components |-> 0, faults |-> MaxFaults, events |-> 0, ticks |-> 0]

\* a call of Text::new; Ok is a Text that holds the one Arc of its Picture
TextNew(content) ==
    /\ Cardinality(DOMAIN arcs) < MaxCached
    /\ \E fail \in FailChoices(3) :
          LET st == text_new(Conn(components, pictures, <<>>, fail), content)
          IN  /\ fail = 0 \/ st.injected
              /\ faults' = IF st.injected THEN faults + 1 ELSE faults
              /\ pictures' = st.pics
              /\ arcs' = IF st.err THEN arcs ELSE arcs @@ (NewXid(pictures) :> 1)
              /\ ops' = [kind |-> "text_new", content |-> content,
                         result |-> IF st.err THEN "err" ELSE "ok", reqs |-> st.reqs]
    /\ UNCHANGED <<components, component_ids, lock, pc, local, background, xpc,
                   queue, stale, events, ticks, limit, call>>

\* a call of Image::new; Ok is an Image that holds the one Arc of its Picture
ImageNew(w) ==
    /\ Cardinality(DOMAIN arcs) < MaxCached
    /\ \E fail \in FailChoices(3) :
          LET st == image_new(Conn(components, pictures, <<>>, fail), w)
          IN  /\ fail = 0 \/ st.injected
              /\ faults' = IF st.injected THEN faults + 1 ELSE faults
              /\ pictures' = st.pics
              /\ arcs' = IF st.err THEN arcs ELSE arcs @@ (NewXid(pictures) :> 1)
              /\ ops' = [kind |-> "image_new", w |-> w,
                         result |-> IF st.err THEN "err" ELSE "ok", reqs |-> st.reqs]
    /\ UNCHANGED <<components, component_ids, lock, pc, local, background, xpc,
                   queue, stale, events, ticks, limit, call>>

\* #[derive(Clone)] of Text and Image: another owner of the same Arc
Clone(xid) ==
    /\ arcs[xid] > 0
    /\ arcs[xid] < MaxOwners
    /\ arcs' = [arcs EXCEPT ![xid] = @ + 1]
    /\ ops' = [kind |-> "clone", xid |-> xid, reqs |-> <<>>]
    /\ UNCHANGED <<components, component_ids, lock, pc, local, pictures, background, xpc,
                   queue, stale, events, ticks, limit, faults, call>>

\* Drop of Picture, run for every owner that goes away
Drop_every(xid) ==
    /\ arcs[xid] > 0
    /\ arcs' = [arcs EXCEPT ![xid] = @ - 1]
    /\ pictures' = [pictures EXCEPT ![xid] = FreedPicture]
    /\ ops' = [kind |-> "drop", xid |-> xid, reqs |-> <<<<"free_picture", xid>>>>]
    /\ UNCHANGED <<components, component_ids, lock, pc, local, background, xpc,
                   queue, stale, events, ticks, limit, faults, call>>

\* an owner of a Text or an Image goes away; the Arc runs Drop of Picture, which
\* frees the picture, when it was the last one
Drop(xid) ==
    /\ arcs[xid] > 0
    /\ arcs' = [arcs EXCEPT ![xid] = @ - 1]
    /\ IF arcs[xid] = 1
       THEN /\ pictures' = [pictures EXCEPT ![xid] = FreedPicture]
            /\ ops' = [kind |-> "drop", xid |-> xid, reqs |-> <<<<"free_picture", xid>>>>]
       ELSE /\ pictures' = pictures
            /\ ops' = [kind |-> "drop", xid |-> xid, reqs |-> <<>>]
    /\ UNCHANGED <<components, component_ids, lock, pc, local, background, xpc,
                   queue, stale, events, ticks, limit, faults, call>>

NextCache ==
    \/ \E content \in Contents : TextNew(content)
    \/ \E w \in ImageSizes : ImageNew(w)
    \/ \E xid \in DOMAIN arcs : Clone(xid)
    \/ \E xid \in DOMAIN arcs : Drop(xid)

SpecCache == InitCache /\ [][NextCache]_vars

\* C18: Text::new of an empty content returns an error, sends no request to the
\* server, creates no picture and gives no Text that a foreground could hold.
C18_EmptyTextRejected ==
    [][(ops'.kind = "text_new" /\ ops'.content = <<>> /\ ops' # ops) =>
          /\ ops'.result = "err"
          /\ ops'.reqs = <<>>
          /\ pictures' = pictures
          /\ arcs' = arcs]_vars

\* Text::new of an empty content has returned its error
C18_EmptyTextCalled ==
    /\ ops.kind = "text_new"
    /\ ops.content = <<>>
    /\ ops.result = "err"
    /\ ops.reqs = <<>>

\* C19: the picture of a Text or an Image is live as long as it has an owner; it
\* is freed in the step that drops its last owner, by one free_picture request;
\* once freed it has no owner and no request frees it again.
C19_FreedOnceAtLastDrop ==
    [][\A xid \in DOMAIN arcs :
          /\ arcs[xid] > 0 => pictures[xid].state = "live"
          /\ arcs'[xid] > 0 => pictures'[xid].state = "live"
          /\ (pictures[xid].state = "live" /\ pictures'[xid].state # "live") =>
                /\ arcs[xid] = 1 /\ arcs'[xid] = 0
                /\ ops'.reqs = <<<<"free_picture", xid>>>>
          /\ (arcs[xid] = 1 /\ arcs'[xid] = 0) => pictures'[xid].state = "freed"
          /\ pictures[xid].state = "freed" =>
                /\ pictures'[xid].state = "freed" /\ arcs'[xid] = 0
                /\ \A k \in DOMAIN ops'.reqs : ops'.reqs[k] # <<"free_picture", xid>>]_vars

\* a picture with two owners has lost one and is live, then the other and is freed
C19_LastCloneDropped ==
    \E xid \in DOMAIN arcs :
        /\ arcs[xid] = 0
        /\ pictures[xid].state = "freed"
        /\ ops.kind = "drop" /\ ops.xid = xid
        /\ \E other \in DOMAIN arcs : arcs[other] = 1 /\ pictures[other].state = "live"

----------------------------------------------------------------------------
(* The dispatch of interaction events *)

----------------------------------------------------------------------------
(* The component thread of Bar::draw: src/src/bar.rs, lines 281 to 431.     *)
(* Its loop measures, takes the registry lock, builds and blits, and sleeps; *)
(* the guard of the lock is a local of the loop's body, so it is dropped at  *)
(* the end of the iteration, behind thread::sleep. Every error is an unwrap. *)

\* the components a bar with such threads holds
MaxLoop == 2

\* what a component of Bar::draw declares: a background and a text
DrawDecls == {decl \in Decls : decl.width = WidthNew}

\* lines 301 to 318: the width of the image and of the text, within the bar
draw_width(decl) ==
    LET iw == IF IsSome(decl.image) THEN Unwrap(decl.image) ELSE 0
        w  == IF IsSome(decl.text) THEN Max(iw, Unwrap(decl.text)) ELSE iw
    IN  Min(w, BarWidth)

\* lines 333 to 372: the color, then the image, go to the pixmap
draw_background(st, decl, w, h) ==
    LET st1 == IF decl.color
               THEN Checked(Checked(st, <<"create_gc">>, TRUE),
                            <<"poly_fill_rectangle", w, h>>, TRUE)
               ELSE st
    IN  IF IsSome(decl.image)
        THEN Checked(st1, <<"put_image", Unwrap(decl.image)>>, TRUE)
        ELSE st1

\* BarComponent::clear of the component at index i: the bar's background, or
\* the window's, goes over the area of the component
clear(st, i) ==
    LET geometry == st.comps[i].geometry
    IN  IF background # 0
        THEN composite_picture(st, background, geometry.x, geometry.x,
                               geometry.width, geometry.height)
        ELSE Checked(st, <<"clear_area", geometry.x, geometry.width, geometry.height>>, TRUE)

\* lines 390 to 393: remove all selected components from the bar
RECURSIVE clear_selected(_, _)
clear_selected(st, idxs) ==
    IF idxs = <<>> \/ st.err THEN st
    ELSE clear_selected(clear(st, Head(idxs)), Tail(idxs))

\* lines 324 to 426: one iteration under the lock. The loop below line 395 is
\* the one of render, without the free of the pixmap.
draw_locked(st, id, w, h, decl) ==
    LET st0  == create_pixmap(st, w, h)
        st1  == draw_background(st0, decl, w, h)
        x    == xoffset_by_id(st.comps, id, w, BarWidth)
        st2  == IF st1.err THEN st1 ELSE [st1 EXCEPT !.comps = sort_by_id(@)]
        idxs == FilterIdx([i \in DOMAIN st2.comps |-> Selected(st2.comps[i], id)])
        st3  == clear_selected(st2, idxs)
    IN  redraw_selected(st3, idxs, id, w, h, x, decl)

\* a bar whose components run the threads of Bar::draw and whose server fails
InitLoop ==
    /\ Start
    /\ limit = [components |-> MaxLoop, faults |-> MaxFaults, events |-> 0, ticks |-> 0]

\* Bar::draw of a component whose position no other component declares
DrawNew(position) ==
    /\ unique_id(position) \notin Ids
    /\ Draw(position)

\* lines 294 to 322: measure, then take the registry lock
DrawLock(id) ==
    /\ pc[id] = "Redrawing"
    /\ lock # "comp" /\ lock # "xev"
    /\ \E decl \in DrawDecls :
          IF lock = "free"
          THEN /\ lock' = "comp"
               /\ pc' = [pc EXCEPT ![id] = "Drawing"]
               /\ local' = [local EXCEPT ![id] =
                               [decl |-> decl, w |-> draw_width(decl), h |-> BarHeight,
                                reqs |-> <<>>]]
          ELSE /\ pc' = [pc EXCEPT ![id] = "Panicked"]
               /\ UNCHANGED <<lock, local>>
    /\ ops' = NoOps
    /\ UNCHANGED <<components, component_ids, pictures, background, xpc,
                   queue, stale, events, faults, call, arcs, ticks, limit>>

\* lines 324 to 429: build, clear, swap, lay out, blit, flush, and go to sleep with
\* the guard alive. An unwrap that panics drops the guard and poisons the mutex.
DrawCycle(id) ==
    /\ pc[id] = "Drawing"
    /\ \E fail \in FailChoices(3 * Len(components) + 6) :
          LET l  == local[id]
              st == draw_locked(Conn(components, pictures, l.reqs, fail), id, l.w, l.h, l.decl)
          IN  /\ fail = 0 \/ st.injected
              /\ faults' = IF st.injected THEN faults + 1 ELSE faults
              /\ components' = st.comps
              /\ pictures' = st.pics
              /\ lock' = IF st.err THEN "poisoned" ELSE lock
              /\ pc' = [pc EXCEPT ![id] = IF st.err THEN "Panicked" ELSE "Sleeping"]
              /\ ops' = [kind |-> "render", id |-> id,
                         result |-> IF st.err THEN "err" ELSE "ok",
                         reqs |-> st.reqs, before |-> components,
                         pictures |-> pictures, w |-> l.w, decl |-> l.decl]
    /\ local' = [local EXCEPT ![id] = NoLocal]
    /\ UNCHANGED <<component_ids, background, xpc, queue, stale, events, call, arcs, ticks, limit>>

\* a loop whose next iteration begins whether or not the cycle has come to its end
DrawWake_any(id) ==
    /\ pc[id] \in {"Sleeping", "Drawing"}
    /\ lock' = "free"
    /\ pc' = [pc EXCEPT ![id] = "Redrawing"]
    /\ ops' = [kind |-> "wake", id |-> id]
    /\ UNCHANGED <<components, component_ids, local, pictures, background, xpc,
                   queue, stale, events, faults, call, arcs, ticks, limit>>

\* line 429 to the end of the loop's body: the sleep is over, the guard is dropped
DrawWake(id) ==
    /\ pc[id] = "Sleeping"
    /\ lock' = "free"
    /\ pc' = [pc EXCEPT ![id] = "Redrawing"]
    /\ ops' = [kind |-> "wake", id |-> id]
    /\ UNCHANGED <<components, component_ids, local, pictures, background, xpc,
                   queue, stale, events, faults, call, arcs, ticks, limit>>

NextLoop ==
    \/ \E position \in Positions : DrawNew(position)
    \/ \E id \in Ids : DrawLock(id)
    \/ \E id \in Ids : DrawCycle(id)
    \/ \E id \in Ids : DrawWake(id)
    \/ ExposeBegin
    \/ ExposeRedraw

SpecLoop == InitLoop /\ [][NextLoop]_vars

----------------------------------------------------------------------------
\* the loop of id waits for its next trigger: it sleeps, or it is idle
Waiting(id) == pc[id] \in {"Sleeping", "Drawn", "Idle", "IdleForever"}

\* C21: a loop holds the registry lock only inside the build, swap, layout and
\* blit part of a cycle: whenever a component's loop sleeps or waits for its
\* next trigger, no component's loop holds the lock, so that another component
\* or the exposure handler can take it.
C21_LockReleasedBeforeWait ==
    (\E id \in Ids : Waiting(id)) /\ lock = "comp"
        => \E id \in Ids : pc[id] \in {"Locked", "Drawing"}

\* a component sleeps behind its cycle and nobody can take the lock
C21_SleepsWithLock ==
    \E id \in Ids : pc[id] = "Sleeping" /\ WidthOf(id) > 0 /\ lock = "comp"

----------------------------------------------------------------------------
\* the components whose thread is inside the locked section of a cycle
InSection == {id \in Ids : pc[id] \in {"Locked", "Drawing"}}

\* C22: at most one thread at a time is inside a section that frees and creates
\* a picture again, writes geometry to the registry or blits components: the
\* locked sections of two cycles and the redraw of the exposure handler never
\* overlap, and whoever is inside holds the registry lock.
C22_OneThreadInSection ==
    /\ Cardinality(InSection) + (IF xpc = "locked" THEN 1 ELSE 0) <= 1
    /\ InSection # {} => lock = "comp"
    /\ xpc = "locked" => lock = "xev"

\* a cycle is inside its locked section while another component is about to
\* start its cycle and the exposure handler waits for events
C22_OneInsideOneAtTheDoor ==
    \E id, j \in Ids :
        /\ id # j /\ id % 3 = j % 3
        /\ pc[id] = "Locked" /\ pc[j] = "Redrawing"
        /\ WidthOf(j) > 0 /\ xpc = "wait"

----------------------------------------------------------------------------
(* Overlapping cycles: every thread has been spawned, and so every first cycle *)
(* has begun, before the first of them takes the registry lock.                *)

RenderBeginTogether(id) ==
    /\ Len(components) = limit.components
    /\ RenderBegin(id)

NextOverlap ==
    \/ \E alignment \in Alignments : Register(alignment)
    \/ \E id \in Ids : RenderBeginTogether(id)
    \/ \E id \in Ids : RenderLocked(id)
    \/ \E id \in Ids : RefreshInterrupt(id)

SpecOverlap == InitLayout /\ [][NextOverlap]_vars

\* every component of bucket b has a surface, and none of them is in a cycle
Settled(b) ==
    /\ BucketIds(b) # {}
    /\ \A id \in BucketIds(b) :
          /\ pc[id] \in {"Drawn", "Idle"}
          /\ PictureExists(pictures, PictureOf(id))

\* the width the component of id measured for the surface it has now
OwnWidth(id) == DeclWidth(Unwrap(pictures[PictureOf(id)].content))

\* where bucket b starts when it is laid out with the widths of the registry
BucketStart(b) ==
    IF b = 0 THEN 0
    ELSE IF b = 1 THEN HalfAsI16(BarWidth - SumOf(BucketIds(1)))
    ELSE I16(I16(BarWidth) - F64AsI16(SumOf(BucketIds(2))))

\* C23: when the cycles of the components of a bucket overlap and all of them
\* have finished, the registry is consistent: every entry holds the width its
\* own cycle measured, and the offsets of the bucket are the ones computed from
\* all the new widths (the layout of the cycle that wrote last).
C23_LastWriterConsistent ==
    \A b \in 0..2 :
        Settled(b) =>
            \A id \in BucketIds(b) :
                /\ WidthOf(id) = OwnWidth(id)
                /\ XOf(id) = BucketStart(b) + SumOf(Below(id))

\* two center components whose cycles overlapped; the one that was registered
\* first wrote last
C23_BothWrittenFirstLast ==
    /\ BucketIds(1) = {1, 4}
    /\ Settled(1)
    /\ CycleOk(1)
    /\ OwnWidth(1) = 30 /\ OwnWidth(4) = 50
    /\ Entry(ops.before, 4).geometry.width = 50
    /\ Entry(ops.before, 4).geometry.x = 75
    /\ XOf(1) = 60 /\ XOf(4) = 90

----------------------------------------------------------------------------
\* the picture ids of the components
ComponentPictures == {components[i].picture : i \in DOMAIN components}

\* C24: a picture id of a component is freed or composited onto the window only
\* while it names a created and not yet freed picture: every free_picture of a
\* cycle names a picture that existed when the cycle began, and every composite
\* of a cycle or of the exposure handler names a picture that exists.
C24_OnlyLivePicturesUsed ==
    ops.kind \in {"render", "expose"} =>
        \A k \in DOMAIN ops.reqs :
            LET req == ops.reqs[k]
            IN  /\ req[1] = "free_picture" => PictureExists(ops.pictures, req[2])
                /\ (req[1] = "composite" /\ req[2] \in ComponentPictures)
                       => PictureExists(pictures, req[2])

\* the first cycle of a component has sent free_picture for the id that
\* BarComponent::new generated and no request had created
C24_FirstCycleFreesNothing ==
    \E id \in Ids :
        /\ CycleOk(id)
        /\ ops.pictures[PictureOf(id)].state = "none"
        /\ \E k \in DOMAIN ops.reqs : ops.reqs[k] = <<"free_picture", PictureOf(id)>>

----------------------------------------------------------------------------
(* What a cycle clears *)

\* the pixel columns of the window and of what the layout may put beside it
Columns == (0 - BarWidth)..(2 * BarWidth)

\* the columns the components of bucket b take on the window, by a registry
SpanOf(comps, b) ==
    {c \in Columns :
        \E i \in DOMAIN comps :
            /\ comps[i].id % 3 = b
            /\ comps[i].geometry.width > 0
            /\ comps[i].geometry.x <= c
            /\ c < comps[i].geometry.x + comps[i].geometry.width}

\* the cycle has composited the bar's background over column c
Cleared(c) ==
    \E k \in DOMAIN ops.reqs :
        LET req == ops.reqs[k]
        IN  /\ req[1] = "composite" /\ req[2] = background
            /\ req[4] <= c /\ c < req[4] + req[5]

\* C25: a cycle whose component declares a smaller width than it had shrinks the
\* span of its bucket: it completes, and every column of the old span that is
\* not in the new span has got the bar's background. A cycle whose component
\* does not get narrower sends no clear.
C25_ShrunkSpanShowsBackground ==
    \A id \in Ids :
        Cycle(id) =>
            LET old == Entry(ops.before, id).geometry.width
            IN  /\ (0 < ops.w /\ ops.w < old) =>
                      /\ CycleOk(id)
                      /\ \A c \in SpanOf(ops.before, id % 3) \ SpanOf(components, id % 3) :
                            Cleared(c)
                /\ (CycleOk(id) /\ ops.w >= old) =>
                      \A k \in DOMAIN ops.reqs :
                          ~(ops.reqs[k][1] = "composite" /\ ops.reqs[k][2] = background)

\* C25 on a bar with a background image
C25_ShrunkSpanShowsBackgroundImage ==
    background # 0 => C25_ShrunkSpanShowsBackground

\* on a bar without a background image a component of width 50 declares a width
\* of 30, and its cycle fails at the clear
C25_ShrinkFailsWithoutImage ==
    \E id \in Ids :
        /\ background = 0
        /\ CycleErr(id)
        /\ Entry(ops.before, id).geometry.width = 50 /\ ops.w = 30
        /\ WidthOf(id) = 50
        /\ ops.reqs[Len(ops.reqs)][1] = "composite" /\ ops.reqs[Len(ops.reqs)][2] = 0

\* on a bar with a background image a center component of width 50 at 75 has
\* become one of width 30 at 85
C25_CenterShrunk ==
    /\ background # 0
    /\ BucketIds(1) = {1}
    /\ CycleOk(1)
    /\ Entry(ops.before, 1).geometry.width = 50 /\ Entry(ops.before, 1).geometry.x = 75
    /\ WidthOf(1) = 30 /\ XOf(1) = 85
    /\ Cleared(75) /\ Cleared(84) /\ Cleared(115) /\ Cleared(124)

----------------------------------------------------------------------------
\* the cycle composited the surface of component c at the geometry of its entry
BlittedAtGeometry(c) ==
    LET geometry == Entry(components, c).geometry
    IN  \E k \in DOMAIN ops.reqs :
            ops.reqs[k] = <<"composite", PictureOf(c), 0, geometry.x,
                            geometry.width, geometry.height>>

----------------------------------------------------------------------------
\* C27: a redraw cycle that measures a width of 0 builds no surface and blits
\* nothing for its component, completes without an error, and leaves the entry
\* of the component with a geometry of width 0.
C27_ZeroWidthCycleSkipsBuild ==
    \A id \in Ids :
        (Cycle(id) /\ ops.w = 0) =>
            /\ CycleOk(id)
            /\ ~Sent("create_pixmap")
            /\ ~Sent("create_picture")
            /\ \A k \in DOMAIN ops.reqs :
                  ~(ops.reqs[k][1] = "composite" /\ ops.reqs[k][2] = PictureOf(id))
            /\ WidthOf(id) = 0

\* a component of width 50 declares a color and nothing else: its cycle asks
\* for a pixmap of width 0, fails, and the entry keeps its width of 50
C27_ZeroWidthCycleFails ==
    \E id \in Ids :
        /\ CycleErr(id)
        /\ ops.w = 0
        /\ ops.reqs = <<<<"create_pixmap", 0, BarHeight>>>>
        /\ Entry(ops.before, id).geometry.width = 50
        /\ WidthOf(id) = 50

----------------------------------------------------------------------------
\* the entries of the registry that have a size
Sized == {i \in DOMAIN components :
              components[i].geometry.width > 0 /\ components[i].geometry.height > 0}

\* the composite that shows the entry at index i where its geometry says
BlitOf(i) ==
    LET c == components[i]
    IN  <<"composite", c.picture, 0, c.geometry.x, c.geometry.width, c.geometry.height>>

----------------------------------------------------------------------------
(* Who writes an entry of the registry *)

\* the step is the locked section of a cycle of component j
CycleStepOf(j) ==
    /\ pc[j] \in {"Locked", "Drawing"}
    /\ lock = "comp"
    /\ ops'.kind = "render" /\ ops'.id = j

\* the step is the one in which the loop of id stores its interrupt sender
RefreshStepOf(id) == pc[id] = "Drawn" /\ pc'[id] = "Idle" /\ lock = "free"

----------------------------------------------------------------------------
\* the components a cycle of id has no business with: the ones of the other
\* buckets, and for a left component the left ones before it
Outside(id) == {c \in Ids : c % 3 # id % 3 \/ (id % 3 = 0 /\ c < id)}

\* C30: a redraw cycle of a component, whether it fails or not, leaves the
\* geometry and the picture of every component of the two other buckets as they
\* were and, when the component is a left one, those of every left component of
\* a smaller id; and it replaces the picture of no component but its own.
C30_CycleLeavesOthersAlone ==
    \A id \in Ids :
        Cycle(id) =>
            /\ \A c \in Outside(id) :
                  /\ Entry(components, c).geometry = Entry(ops.before, c).geometry
                  /\ Entry(components, c).picture = Entry(ops.before, c).picture
            /\ \A c \in Ids \ {id} :
                  pictures[PictureOf(c)] = ops.pictures[PictureOf(c)]

\* the cycle of the second left component, beside a first left one of width 50
\* and a center one of width 30: both are where they were
C30_SecondLeftBesideTwo ==
    /\ BucketIds(0) = {0, 3} /\ BucketIds(1) = {1}
    /\ CycleOk(3)
    /\ WidthOf(0) = 50 /\ XOf(0) = 0
    /\ WidthOf(1) = 30 /\ XOf(1) = 85
    /\ WidthOf(3) = 30 /\ XOf(3) = 50
    /\ PictureExists(pictures, PictureOf(0)) /\ PictureExists(pictures, PictureOf(1))

----------------------------------------------------------------------------
(* The threads of Bar::draw on a bar whose components may declare the same  *)
(* position. The entries of two such components have the same id; the model *)
(* follows the thread of the first of them.                                 *)

NextTwins ==
    \/ \E position \in Positions : Draw(position)
    \/ \E id \in Ids : DrawLock(id)
    \/ \E id \in Ids : DrawCycle(id)
    \/ \E id \in Ids : DrawWake(id)
    \/ ExposeBegin
    \/ ExposeRedraw

SpecTwins == InitLoop /\ [][NextTwins]_vars

\* the entries of a registry that have the id
EntriesOf(comps, id) == {i \in DOMAIN comps : comps[i].id = id}

\* C31: the entry of a component is in the registry when its thread starts, and
\* a redraw cycle finds exactly one entry with the id of its component; no step
\* removes an entry, and the registry grows by exactly one entry with every
\* registration and by nothing else.
C31_OneEntryPerComponent ==
    [][ /\ \A id \in DOMAIN pc' : EntriesOf(components', id) # {}
        /\ \A i \in DOMAIN components :
              \E j \in DOMAIN components' :
                  /\ components'[j].id = components[i].id
                  /\ components'[j].picture = components[i].picture
        /\ Len(components') \in {Len(components), Len(components) + 1}
        /\ Len(components') = Len(components) + 1
              <=> (ops'.kind = "draw" \/ DOMAIN pc' # DOMAIN pc)
        /\ ops'.kind = "render"
              => Cardinality(EntriesOf(ops'.before, ops'.id)) = 1
      ]_vars

\* a cycle has run on a registry that holds two entries with its id, and has
\* swapped the picture of both
C31_CycleFoundTwoEntries ==
    \E id \in Ids :
        /\ CycleOk(id)
        /\ Cardinality(EntriesOf(ops.before, id)) = 2
        /\ \A i \in EntriesOf(components, id) :
              PictureExists(pictures, components[i].picture)

----------------------------------------------------------------------------
\* the positions of a loop inside a redraw cycle, behind its start
Underway == {"Locked", "Drawing"}
\* the positions of a loop between two redraw cycles
Between == {"Drawn", "Idle", "Sleeping"}

\* C32: the redraw cycles of one component are strictly sequential. A loop
\* starts a cycle only from a position between two cycles; a cycle that has
\* started goes on to its locked section and from there to its end, where it
\* leaves the record of one cycle; nothing takes the loop back to the start of
\* a cycle while one is underway.
C32_CyclesSequential ==
    [][ \A id \in DOMAIN pc :
            /\ (pc'[id] = "Redrawing" /\ pc[id] # "Redrawing") => pc[id] \in Between
            /\ pc[id] = "Redrawing"
                  => pc'[id] \in {"Redrawing", "Drawn", "Panicked"} \cup Underway
            /\ pc[id] \in Underway
                  => \/ pc'[id] = pc[id]
                     \/ /\ pc'[id] \in {"Drawn", "Sleeping", "Panicked"}
                        /\ ops'.kind = "render" /\ ops'.id = id
      ]_vars

\* a component that has been drawn is inside the locked section of a later cycle
C32_SecondCycleUnderway ==
    \E id \in Ids :
        /\ pc[id] \in Underway
        /\ WidthOf(id) > 0
        /\ PictureExists(pictures, PictureOf(id))

----------------------------------------------------------------------------
\* the component of id has completed a redraw cycle: its surface exists
HasDrawn(id) == PictureExists(pictures, PictureOf(id))

\* C33, the part of it a finite run can refute: no thread is lost. A component
\* thread that has not completed its first redraw cycle has not panicked, so it
\* can still complete it, and the thread that handles the exposures has not
\* panicked, so it can still handle the next one. (A thread that has panicked
\* takes no further step.)
C33_NoThreadLost ==
    /\ \A id \in DOMAIN pc : pc[id] = "Panicked" => HasDrawn(id)
    /\ xpc # "panicked"

\* without any fault of the server: a component has declared a width of 0 and
\* its thread has panicked inside its first cycle, under the lock; another
\* component, not drawn yet, has panicked at the poisoned lock
C33_UndrawnThreadLost ==
    \E id, j \in Ids :
        /\ id # j
        /\ faults = 0
        /\ lock = "poisoned"
        /\ pc[j] = "Panicked" /\ pc[id] = "Panicked"
        /\ pictures[PictureOf(id)].state = "none"
        /\ pictures[PictureOf(j)].state = "none"
        /\ WidthOf(id) = 0 /\ WidthOf(j) = 0

----------------------------------------------------------------------------
\* the component threads that hold the registry lock
Holders == {id \in Ids : pc[id] \in Underway \cup {"Sleeping"}}

\* the thread of id waits for the registry lock
Blocked(id) == pc[id] = "Redrawing" /\ lock \in {"comp", "xev"}

\* C34: no deadlock on the registry lock. Whenever the lock is held, it is held
\* by exactly one thread, and that thread is not waiting for the lock: it is in
\* its locked section or asleep behind it, a position whose step has no other
\* guard than the position itself and gives the lock up. So the threads are
\* never all blocked on the lock.
C34_HolderReleases ==
    /\ lock = "comp" =>
          /\ Cardinality(Holders) = 1
          /\ xpc # "locked"
          /\ \A id \in Holders : ~Blocked(id)
    /\ lock = "xev" =>
          /\ Holders = {}
          /\ xpc = "locked"
    /\ lock \in {"free", "poisoned"} =>
          /\ Holders = {} /\ xpc # "locked"
          /\ \A id \in Ids : ~Blocked(id)

\* a thread sleeps with the lock, another waits for the lock, and the exposure
\* handler waits for an event
C34_OneSleepsOneBlocked ==
    \E id, j \in Ids :
        /\ id # j
        /\ pc[id] = "Sleeping" /\ lock = "comp"
        /\ Blocked(j)
        /\ xpc = "wait"


----------------------------------------------------------------------------
(* The width of a component, from the sizes its image and its text have *)

\* the sizes a background image and a text can have: image.width() is a u32,
\* the pixel width of a layout an i32
NaturalWidths == {None, Some(50), Some(300), Some(65586)}

\* image.width() as u16
image_width(image) == IF IsSome(image) THEN Some(U16(Unwrap(image))) ELSE None

\* text_width(..).unwrap_or(0): the pixel width of the layout as u16; created says whether the
\* dummy surface could be created, calculate_width takes 0 where it could not
text_width_or_0(text, created) ==
    IF ~IsSome(text) THEN None
    ELSE IF created THEN Some(U16(Unwrap(text))) ELSE Some(0)

\* the bar, and a declaration whose image and text have their natural sizes
InitMeasure ==
    /\ components = <<>>
    /\ component_ids = <<0, 1, 2>>
    /\ lock = "free"
    /\ pc = <<>>
    /\ local = <<>>
    /\ background \in {0, 1}
    /\ pictures = IF background = 0 THEN <<>> ELSE <<LivePicture(BarBackground)>>
    /\ xpc = "wait"
    /\ queue = <<>>
    /\ stale = <<>>
    /\ events = 0
    /\ ticks = 0
    /\ faults = 0
    /\ ops = NoOps
    /\ arcs = <<>>
    /\ limit = [components |-> 0, faults |-> 0, events |-> 0, ticks |-> 0]
    /\ \E fixed \in {None, Some(30)}, min \in MinWidths, max \in MaxWidths,
          ignore_background \in BOOLEAN, ignore_text \in BOOLEAN,
          image \in NaturalWidths, text \in NaturalWidths, bar_width \in BarWidths,
          created \in BOOLEAN :
          call = [fn |-> "measure", bar_width |-> bar_width,
                  width |-> [fixed |-> fixed, min |-> min, max |-> max,
                             ignore_background |-> ignore_background,
                             ignore_text |-> ignore_text],
                  image |-> image, text |-> text, created |-> created,
                  result |-> None]

\* the call of calculate_width with the background and the text of a declaration
CallMeasure ==
    /\ call.fn = "measure"
    /\ call.result = None
    /\ call' = [call EXCEPT !.result =
                   Some(calculate_width(call.bar_width, call.width,
                                        image_width(call.image),
                                        text_width_or_0(call.text, call.created)))]
    /\ UNCHANGED <<components, component_ids, lock, pc, local, pictures, background, xpc,
                   queue, stale, events, ticks, limit, faults, ops, arcs>>

NextMeasure == CallMeasure

SpecMeasure == InitMeasure /\ [][NextMeasure]_vars

\* calculate_width has returned for a declaration without fixed width
Measured == call.fn = "measure" /\ IsSome(call.result) /\ ~IsSome(call.width.fixed)

\* x clamped to [lo, hi]: raised to lo, then lowered to hi
Clamp(x, lo, hi) == IF x < lo THEN lo ELSE IF x > hi THEN hi ELSE x

\* the reference value of the width: image and text are the widths it is raised to
ReferenceWidth(width, image, text, bar_width) ==
    LET r0 == width.min
        r1 == IF IsSome(image) /\ ~width.ignore_background
              THEN Max(r0, Unwrap(image)) ELSE r0
        r2 == IF IsSome(text) /\ ~width.ignore_text
              THEN Max(r1, Unwrap(text)) ELSE r1
    IN  Clamp(Clamp(r2, width.min, width.max), 0, bar_width)

\* C35: with no fixed width declared, the computed width is the reference value:
\* the minimum, raised to the natural width of the background unless that is
\* ignored, raised to the natural width of the foreground unless that is ignored,
\* clamped to [min, max] and then to [0, bar_width]; a width that is ignored does
\* not change the result.
C35_WidthIsReference ==
    Measured =>
        /\ Unwrap(call.result) =
               ReferenceWidth(call.width, call.image, call.text, call.bar_width)
        /\ call.width.ignore_background =>
               Unwrap(call.result) =
                   ReferenceWidth(call.width, None, call.text, call.bar_width)
        /\ call.width.ignore_text =>
               Unwrap(call.result) =
                   ReferenceWidth(call.width, call.image, None, call.bar_width)

\* what holds of it: the computed width is the reference value of the widths
\* as calculate_width has converted them to 16 bits, and a width that is
\* ignored does not change the result
C35_WidthIsReferenceOfConverted ==
    Measured =>
        LET image == image_width(call.image)
            text == text_width_or_0(call.text, call.created)
        IN  /\ Unwrap(call.result) =
                   ReferenceWidth(call.width, image, text, call.bar_width)
            /\ call.width.ignore_background =>
                   Unwrap(call.result) =
                       ReferenceWidth(call.width, None, text, call.bar_width)
            /\ call.width.ignore_text =>
                   Unwrap(call.result) =
                       ReferenceWidth(call.width, image, None, call.bar_width)

\* an image 65586 pixels wide on a bar of width 200 gives a component 50 wide
C35_WideImageTruncated ==
    /\ Measured
    /\ call.image = Some(65586) /\ ~call.width.ignore_background
    /\ call.text = None
    /\ call.width.min = 0 /\ call.width.max = U16Max
    /\ call.bar_width = 200
    /\ Unwrap(call.result) = 50


----------------------------------------------------------------------------
(* The offset of content inside a component: src/src/component/alignment.rs *)

\* the widths x_offset is called with
OffsetWidths == {0, 1, 2, 3, 100, 200, 300, 32767, 32768, 40000, U16Max}

\* Alignment::x_offset: Some(x), or None where the thread panics. comp_width - width
\* is a subtraction of u16: with overflow checks (a debug build) it panics where
\* width is larger, without them it wraps
x_offset(alignment, comp_width, width, overflow_checks) ==
    CASE alignment = "LEFT" -> Some(0)
      [] alignment = "CENTER" -> Some(HalfAsI16(comp_width - width))
      [] alignment = "RIGHT" ->
            IF comp_width < width /\ overflow_checks THEN None
            ELSE Some(I16(U16(comp_width - width)))

\* the bar, and the arguments of a call of x_offset
InitOffset ==
    /\ components = <<>>
    /\ component_ids = <<0, 1, 2>>
    /\ lock = "free"
    /\ pc = <<>>
    /\ local = <<>>
    /\ background = 0
    /\ pictures = <<>>
    /\ xpc = "wait"
    /\ queue = <<>>
    /\ stale = <<>>
    /\ events = 0
    /\ ticks = 0
    /\ faults = 0
    /\ ops = NoOps
    /\ arcs = <<>>
    /\ limit = [components |-> 0, faults |-> 0, events |-> 0, ticks |-> 0]
    /\ \E alignment \in Alignments, comp_width \in OffsetWidths, width \in OffsetWidths,
          overflow_checks \in BOOLEAN :
          call = [fn |-> "x_offset", alignment |-> alignment, comp_width |-> comp_width,
                  width |-> width, overflow_checks |-> overflow_checks,
                  returned |-> FALSE, result |-> None]

\* the call of x_offset
CallOffset ==
    /\ call.fn = "x_offset"
    /\ ~call.returned
    /\ call' = [call EXCEPT !.returned = TRUE,
                            !.result = x_offset(call.alignment, call.comp_width,
                                                call.width, call.overflow_checks)]
    /\ UNCHANGED <<components, component_ids, lock, pc, local, pictures, background, xpc,
                   queue, stale, events, ticks, limit, faults, ops, arcs>>

NextOffset == CallOffset

SpecOffset == InitOffset /\ [][NextOffset]_vars

\* the call of x_offset is over
OffsetCalled == call.fn = "x_offset" /\ call.returned

\* n / 2, truncated towards zero
TruncHalf(n) == IF n >= 0 THEN n \div 2 ELSE -((-n) \div 2)

\* the offset of content of width c in a component of width w
ExactOffset(alignment, w, c) ==
    CASE alignment = "LEFT" -> 0
      [] alignment = "CENTER" -> TruncHalf(w - c)
      [] alignment = "RIGHT" -> w - c

\* C36: for content of width c in a component of width w, x_offset returns 0 for
\* LEFT, w/2 - c/2 truncated for CENTER and w - c for RIGHT, for all 16-bit values
\* of w and c, those with c > w included.
C36_OffsetExact ==
    OffsetCalled =>
        call.result = Some(ExactOffset(call.alignment, call.comp_width, call.width))

\* what holds of it: the offset is exact for LEFT and CENTER, and for RIGHT where
\* w - c is within [0, 32767], or within [-32768, -1] in a build without
\* overflow checks
C36_OffsetExactInRange ==
    (/\ OffsetCalled
     /\ call.alignment = "RIGHT" =>
           LET d == call.comp_width - call.width
           IN  \/ 0 <= d /\ d <= 32767
               \/ -32768 <= d /\ d < 0 /\ ~call.overflow_checks)
        => call.result = Some(ExactOffset(call.alignment, call.comp_width, call.width))

\* content 300 wide at the right of a component 200 wide: the thread panics in a
\* build with overflow checks
C36_RightWiderPanics ==
    /\ OffsetCalled
    /\ call.alignment = "RIGHT" /\ call.comp_width = 200 /\ call.width = 300
    /\ call.overflow_checks
    /\ call.result = None

\* content 40000 wide at the right of a component 100 wide, without overflow
\* checks: the offset is 25636, to the right of the component
C36_RightWrapped ==
    /\ OffsetCalled
    /\ call.alignment = "RIGHT" /\ call.comp_width = 100 /\ call.width = 40000
    /\ ~call.overflow_checks
    /\ call.result = Some(25636)


----------------------------------------------------------------------------
(* The cache of a component's content: src/src/component/bar_component.rs *)

\* the colors, the vertical offsets, the image layers and the texts of the
\* declarations; an Image and a Text stand as the id of their picture
Colors == {None, Some("red"), Some("blue")}
YOffsets == {None, Some(0), Some(3)}
ImageLayers == {<<>>, <<7>>, <<8>>, <<7, 8>>, <<8, 7>>, <<7, 7>>}
Texts == {None, Some(7), Some(8)}
TextYOffsets == {0, 3}

\* BarComponentCache::new
BarComponentCache_new ==
    [yoffset |-> 0, pictures |-> <<>>, color |-> None, alignment |-> "CENTER"]

\* BarComponentCache::new_bg
new_bg(bg) ==
    [yoffset |-> 0, color |-> bg.color, alignment |-> bg.alignment, pictures |-> bg.images]

\* BarComponentCache::new_fg
new_fg(fg) ==
    [color |-> None, alignment |-> fg.alignment,
     yoffset |-> IF IsSome(fg.yoffset) THEN Unwrap(fg.yoffset) ELSE 0,
     pictures |-> IF IsSome(fg.text) THEN <<Unwrap(fg.text)>> ELSE <<>>]

\* PartialEq of BarComponentCache that takes the pictures as a set
BarComponentCache_eq_unordered(a, b) ==
    /\ a.yoffset = b.yoffset
    /\ {a.pictures[i] : i \in DOMAIN a.pictures} = {b.pictures[i] : i \in DOMAIN b.pictures}
    /\ a.color = b.color
    /\ a.alignment = b.alignment

\* PartialEq of BarComponentCache, as derived: field by field
BarComponentCache_eq(a, b) ==
    /\ a.yoffset = b.yoffset
    /\ Len(a.pictures) = Len(b.pictures)
    /\ \A i \in DOMAIN a.pictures : a.pictures[i] = b.pictures[i]
    /\ a.color = b.color
    /\ a.alignment = b.alignment

\* the foreground a cycle draws: a foreground without vertical offset of its own
\* takes the one of the bar
with_text_yoffset(fg, text_yoffset) ==
    IF IsSome(fg.yoffset) THEN fg ELSE [fg EXCEPT !.yoffset = Some(text_yoffset)]

\* the cache of a declaration: of its background or of its foreground
cache_of(layer, decl, text_yoffset) ==
    IF layer = "bg" THEN new_bg(decl)
    ELSE new_fg(with_text_yoffset(decl, text_yoffset))

\* the backgrounds and the foregrounds a component can declare
Backgrounds == [color : Colors, alignment : Alignments, images : ImageLayers]
Foregrounds == [text : Texts, alignment : Alignments, yoffset : YOffsets]

\* the bar, the declaration a cache was made of and the one of the next cycle
InitFingerprint ==
    /\ components = <<>>
    /\ component_ids = <<0, 1, 2>>
    /\ lock = "free"
    /\ pc = <<>>
    /\ local = <<>>
    /\ background = 0
    /\ pictures = <<>>
    /\ xpc = "wait"
    /\ queue = <<>>
    /\ stale = <<>>
    /\ events = 0
    /\ ticks = 0
    /\ faults = 0
    /\ ops = NoOps
    /\ arcs = <<>>
    /\ limit = [components |-> 0, faults |-> 0, events |-> 0, ticks |-> 0]
    /\ \/ \E cached \in Backgrounds, declared \in Backgrounds :
             call = [fn |-> "eq", layer |-> "bg", cached |-> cached, declared |-> declared,
                     text_yoffset |-> 0, returned |-> FALSE, result |-> FALSE]
       \/ \E cached \in Foregrounds, declared \in Foregrounds,
             text_yoffset \in TextYOffsets :
             call = [fn |-> "eq", layer |-> "fg", cached |-> cached, declared |-> declared,
                     text_yoffset |-> text_yoffset, returned |-> FALSE, result |-> FALSE]

\* the comparison of the cache with the cache of the next declaration
CallEq ==
    /\ call.fn = "eq"
    /\ ~call.returned
    /\ call' = [call EXCEPT
                   !.returned = TRUE,
                   !.result = BarComponentCache_eq(
                                  cache_of(call.layer, call.cached, call.text_yoffset),
                                  cache_of(call.layer, call.declared, call.text_yoffset))]
    /\ UNCHANGED <<components, component_ids, lock, pc, local, pictures, background, xpc,
                   queue, stale, events, ticks, limit, faults, ops, arcs>>

NextFingerprint == CallEq

SpecFingerprint == InitFingerprint /\ [][NextFingerprint]_vars

\* the caches have been compared
Compared == call.fn = "eq" /\ call.returned
OldCache == cache_of(call.layer, call.cached, call.text_yoffset)
NewCache == cache_of(call.layer, call.declared, call.text_yoffset)

\* the vertical offset a foreground is drawn with
EffectiveYOffset(fg) == IF IsSome(fg.yoffset) THEN Unwrap(fg.yoffset) ELSE call.text_yoffset

\* t holds the layers of s in another order
Reordered(s, t) ==
    /\ s # t
    /\ Len(s) = Len(t)
    /\ \E f \in [DOMAIN s -> DOMAIN s] :
          /\ \A i, j \in DOMAIN s : f[i] = f[j] => i = j
          /\ \A i \in DOMAIN s : t[i] = s[f[i]]

----------------------------------------------------------------------------
(* The offset of a bucket, as a function of the registry: xoffset_by_id *)

\* the widths of the bars and of the components of the calls of xoffset_by_id
WideBarWidths == {BarWidth, 20000, 40000}
WideWidths == {0, 100, BarWidth, 20000, 40000}

\* the bar, and a registry of three components of one bucket, none wider than the
\* bar, with the component whose cycle calls xoffset_by_id and its new width
InitXOffset ==
    /\ components = <<>>
    /\ component_ids = <<0, 1, 2>>
    /\ lock = "free"
    /\ pc = <<>>
    /\ local = <<>>
    /\ background = 0
    /\ pictures = <<>>
    /\ xpc = "wait"
    /\ queue = <<>>
    /\ stale = <<>>
    /\ events = 0
    /\ ticks = 0
    /\ faults = 0
    /\ ops = NoOps
    /\ arcs = <<>>
    /\ limit = [components |-> 0, faults |-> 0, events |-> 0, ticks |-> 0]
    /\ \E bar_width \in WideBarWidths, b \in 0..2, k \in 0..2 :
       \E w \in [1..3 -> {x \in WideWidths : x <= bar_width}],
          new_width \in {x \in WideWidths : x <= bar_width} :
          call = [fn |-> "xoffset_by_id",
                  comps |-> [i \in 1..3 |->
                                [id |-> b + 3 * (i - 1),
                                 geometry |-> Geometry(0, 0, w[i], BarHeight)]],
                  id |-> b + 3 * k, new_width |-> new_width, bar_width |-> bar_width,
                  returned |-> FALSE, result |-> 0]

\* the call of xoffset_by_id
CallXOffset ==
    /\ call.fn = "xoffset_by_id"
    /\ ~call.returned
    /\ call' = [call EXCEPT
                   !.returned = TRUE,
                   !.result = xoffset_by_id(call.comps, call.id, call.new_width,
                                            call.bar_width)]
    /\ UNCHANGED <<components, component_ids, lock, pc, local, pictures, background, xpc,
                   queue, stale, events, ticks, limit, faults, ops, arcs>>

NextXOffset == CallXOffset

SpecXOffset == InitXOffset /\ [][NextXOffset]_vars

\* xoffset_by_id has returned
XOffsetCalled == call.fn = "xoffset_by_id" /\ call.returned

\* the sum of the widths of the components of call.comps whose index is in S
RECURSIVE WidthSum(_)
WidthSum(S) ==
    IF S = {} THEN 0
    ELSE LET i == CHOOSE i \in S : TRUE
         IN  call.comps[i].geometry.width + WidthSum(S \ {i})

\* the offset of the call, in the integers
ExactXOffset ==
    LET before == {i \in DOMAIN call.comps : call.comps[i].id < call.id}
        others == {i \in DOMAIN call.comps : call.comps[i].id # call.id}
        total  == WidthSum(others) + call.new_width
    IN  CASE call.id % 3 = 0 -> WidthSum(before)
          [] call.id % 3 = 1 ->
                IF call.bar_width >= total THEN (call.bar_width - total) \div 2
                ELSE -((total - call.bar_width) \div 2)
          [] call.id % 3 = 2 -> call.bar_width - total

\* C38: for a registry whose widths are each at most bar_width, xoffset_by_id
\* returns the offset as computed in the integers: neither the u16 sum of the
\* widths nor the conversions to i16 wrap, and the offset of a component of the
\* left bucket is not negative.
C38_XOffsetExact ==
    XOffsetCalled =>
        /\ call.result = ExactXOffset
        /\ call.id % 3 = 0 => call.result >= 0

\* what holds of it: the offset is exact where the bar is at most 32767 wide and
\* the widths of the bucket, the new one included, add up to at most 32767
C38_XOffsetExactWithinI16 ==
    (/\ XOffsetCalled
     /\ call.bar_width <= 32767
     /\ WidthSum({i \in DOMAIN call.comps : call.comps[i].id # call.id})
            + call.new_width <= 32767)
        => /\ call.result = ExactXOffset
           /\ call.id % 3 = 0 => call.result >= 0

\* two components as wide as the bar, 20000, before a third of the left bucket:
\* the offset of the third is -25536
C38_LeftOffsetNegative ==
    /\ XOffsetCalled
    /\ call.bar_width = 20000
    /\ call.id = 6
    /\ call.comps[1].geometry.width = 20000 /\ call.comps[2].geometry.width = 20000
    /\ call.result = -25536

====
